---- MODULE Spec2Model ----
(***************************************************************************)
(* A model of shoyu's circuit pool: the retry wrapper, the daemon launch   *)
(* and teardown, the synchronous and asynchronous circuits with their      *)
(* identity rotation, and the two pool facades (Shoyu, AsyncShoyu).        *)
(***************************************************************************)
EXTENDS Integers, Sequences, FiniteSets, TLC

VARIABLES
    facade,                    \* "Shoyu" or "AsyncShoyu": the pool class constructed
    num_circuits,              \* argument of the pool constructor
    max_queries_per_identity,  \* argument of the pool constructor
    tor_in_path,               \* whether shutil.which("tor") finds the executable
    pc,                        \* position of the (single) caller
    data_dir,                  \* "none", "exists" or "removed"
    stack,                     \* the ExitStack's callbacks, oldest first
    procs,                     \* every daemon process spawned so far
    tor_process,               \* index in procs of the pool's daemon, 0 if none
    sync_searches,             \* the WebSearch circuits, in creation order
    async_searches,            \* the AsyncWebSearch circuits, in creation order
    cursor,                    \* position of cycle(...) in the circuit list
    cur,                       \* circuit picked by the search call in progress
    w,                         \* frame of the retry wrapper in progress
    picks,                     \* circuits picked by the search calls so far
    call,                      \* the public call in progress or finished last
    att,                       \* observed: what the latest search invocation did
    hist,                      \* observed, per circuit: operations and rotations
    launches,                  \* what each launch attempt did
    td,                        \* teardown calls: position, count, outcome
    clock,                     \* the time, in ticks
    last_request_time,         \* per circuit: _last_request_time
    throttle,                  \* the throttled caller: position and locals
    starts,                    \* observed: circuit and time of each operation start
    threads,                   \* the concurrent callers: position and locals
    rotation_lock,             \* holder of the class's _rotation_lock, 0 if free
    rotations,                 \* observed: rotation commands sent by the callers
    controller,                \* a TorController used on its own
    identities,                \* per turn of the creation loop: the identity of
                               \* the WebSearch and of the AsyncWebSearch created
    ports                      \* the ports allocated, passed to each launch
                               \* attempt, and held by each circuit

vars == <<facade, num_circuits, max_queries_per_identity, tor_in_path, pc,
          data_dir, stack, procs, tor_process, sync_searches, async_searches,
          cursor, cur, w, picks, att, call, hist, launches, td, clock,
          last_request_time, throttle, starts, threads, rotation_lock,
          rotations, controller, identities, ports>>

\* The variables of the time, of the concurrent callers, of the lone
\* controller and of the identities.
sideVars == <<clock, last_request_time, throttle, starts, threads,
              rotation_lock, rotations, controller, identities>>

poolVars == <<facade, num_circuits, max_queries_per_identity, tor_in_path, pc,
              data_dir, stack, procs, tor_process, sync_searches,
              async_searches, cursor, cur, picks, att, call, hist, launches,
              td, ports>>

-----------------------------------------------------------------------------
(* Bounds of the model. *)

MaxCircuits == 2
MaxQueries == 2
MaxCalls == 4
MaxSearches == 2
MaxTeardowns == 2
MaxRetries == 3
MaxTime == 5
MaxStarts == 3
MaxInterval == 2
MaxThreads == 3
MaxControllerCalls == 4
MaxPoolSize == 1001
MaxPorts == 2
MaxPortSearches == 1
MaxCallers == 2

-----------------------------------------------------------------------------
(* Errors.  A kind is the name of the exception class. *)

CoreErrors ==
    {"TorError", "TorConnectionError", "TorAuthenticationError",
     "TorCommandError", "SearchClientNotInitializedError", "SearchFailedError"}

\* What an invocation hands back: a value, or an exception of kind val.
Ok(v) == [ok |-> TRUE, val |-> v]
Err(e) == [ok |-> FALSE, val |-> e]

-----------------------------------------------------------------------------
(* utils/decorators.py: retry and async_retry. *)

\* The frame of one call of a wrapped function.  i is the loop variable;
\* calls counts the invocations of the function, after_listed those made
\* after an invocation raised an exception of non_retry_exceptions, and
\* failed those that raised; slept lists the base delay of each sleep taken.
NewFrame(max_retries, sleep_time, raises_on_exception, non_retry_exceptions, exponential_backoff) ==
    [max_retries |-> max_retries,
     sleep_time |-> sleep_time,
     raises_on_exception |-> raises_on_exception,
     non_retry_exceptions |-> non_retry_exceptions,
     exponential_backoff |-> exponential_backoff,
     i |-> 0,
     calls |-> 0,
     failed |-> 0,
     listed |-> FALSE,
     after_listed |-> 0,
     slept |-> <<>>,
     status |-> IF max_retries = 0 THEN "returned" ELSE "running",
     value |-> "None",
     cause |-> "None"]

NoFrame == [NewFrame(0, 0, TRUE, {}, FALSE) EXCEPT !.status = "idle"]

\* A wrapper whose last iteration is taken to be i = max_retries.
GivesUpOffByOne(f, e) ==
    (f.i = f.max_retries
     \/ (f.non_retry_exceptions # {} /\ e \in f.non_retry_exceptions))
    /\ f.raises_on_exception

\* The condition of the wrapper's `if` on an exception e in iteration i.
GivesUp(f, e) ==
    (f.i = f.max_retries - 1
     \/ (f.non_retry_exceptions # {} /\ e \in f.non_retry_exceptions))
    /\ f.raises_on_exception

\* A wrapper that raises SearchFailedError whatever the exception.
Raised_AlwaysWrapped(e) == "SearchFailedError"

\* The exception the wrapper raises for e: a CoreError as it is, anything else
\* as SearchFailedError.
Raised(e) == IF e \in CoreErrors THEN e ELSE "SearchFailedError"

\* The base delay of the sleep after a failed iteration i (the jitter factor
\* of the exponential backoff is not part of it).
BackoffTime(f) ==
    IF f.exponential_backoff THEN f.sleep_time * (2 ^ f.i) ELSE f.sleep_time

\* The frame's record of an invocation of the function.
Invocation(f, res) ==
    [f EXCEPT !.calls = @ + 1,
              !.failed = IF res.ok THEN @ ELSE @ + 1,
              !.after_listed = IF f.listed THEN @ + 1 ELSE @,
              !.listed = @ \/ (~res.ok /\ res.val \in f.non_retry_exceptions)]

\* One iteration of the wrapper's loop, given what the invocation did.
wrapper(f, res) ==
    LET g == Invocation(f, res)
    IN  IF res.ok
        THEN [g EXCEPT !.status = "returned", !.value = res.val]
        ELSE IF GivesUp(f, res.val)
        THEN [g EXCEPT !.status = "raised", !.value = Raised(res.val),
                       !.cause = res.val]
        ELSE LET h == [g EXCEPT
                         !.slept = IF f.sleep_time # 0
                                   THEN Append(@, BackoffTime(f)) ELSE @,
                         !.i = @ + 1]
             IN  IF h.i = h.max_retries
                 THEN [h EXCEPT !.status = "returned", !.value = "None"]
                 ELSE h

\* An async wrapper that sleeps sleep_time whatever exponential_backoff.
async_wrapper_NoBackoff(f, res) ==
    LET h == wrapper(f, res)
    IN  IF Len(h.slept) > Len(f.slept)
        THEN [h EXCEPT !.slept = Append(f.slept, f.sleep_time)]
        ELSE h

\* One iteration of the loop of async_retry's wrapper.
async_wrapper(f, res) ==
    LET g == Invocation(f, res)
    IN  IF res.ok
        THEN [g EXCEPT !.status = "returned", !.value = res.val]
        ELSE IF (f.i = f.max_retries - 1
                 \/ (f.non_retry_exceptions # {}
                     /\ res.val \in f.non_retry_exceptions))
                /\ f.raises_on_exception
        THEN [g EXCEPT !.status = "raised", !.value = Raised(res.val),
                       !.cause = res.val]
        ELSE LET h == [g EXCEPT
                         !.slept = IF f.sleep_time # 0
                                   THEN Append(@, BackoffTime(f)) ELSE @,
                         !.i = @ + 1]
             IN  IF h.i = h.max_retries
                 THEN [h EXCEPT !.status = "returned", !.value = "None"]
                 ELSE h

-----------------------------------------------------------------------------
(* utils/process_utils.py, utils/network.py, tor/process.py. *)

StartupTimeout == 10

MaxChildren == 1

\* A process: term and kill count the signals sent to it; in_grace: it
\* exited within the grace period that followed a termination signal;
\* children: its descendants that are running.
NewProcess(state) ==
    [state |-> state, term |-> 0, kill |-> 0, in_grace |-> FALSE,
     children |-> 0]

\* A terminate_process_tree that kills without waiting.
terminate_process_tree_AlwaysKill(p, in_grace, found) ==
    IF p.state = "alive"
    THEN [state |-> "exited", term |-> p.term + 1, kill |-> p.kill + 1,
          in_grace |-> in_grace,
          children |-> IF found THEN 0 ELSE p.children]
    ELSE p

\* A terminate_process_tree without the kill that follows the grace period.
terminate_process_tree_NoKill(p, in_grace, found) ==
    IF p.state = "alive"
    THEN [p EXCEPT !.term = @ + 1,
                   !.state = IF in_grace THEN "exited" ELSE "alive",
                   !.in_grace = in_grace,
                   !.children = IF found THEN 0 ELSE @]
    ELSE p

\* terminate_process_tree on process p.  in_grace: whether a live process
\* exits within the 5 seconds that follow the termination signal.  found:
\* whether psutil.Process(pid), called once the process has been waited
\* for, still finds it and lists its descendants; NoSuchProcess and
\* AccessDenied are swallowed.  Nothing is done for a process whose poll()
\* is not None.
terminate_process_tree(p, in_grace, found) ==
    IF p.state = "alive"
    THEN [state |-> "exited",
          term |-> p.term + 1,
          kill |-> IF in_grace THEN p.kill ELSE p.kill + 1,
          in_grace |-> in_grace,
          children |-> IF found THEN 0 ELSE p.children]
    ELSE p

\* wait_for_port: one connection attempt per second, timeout times.
\* opens_at: the first attempt the control port accepts.
wait_for_port(opens_at, timeout) ==
    \E t \in 1..timeout : opens_at <= t

\* What the environment decides for one launch attempt.
LaunchEnvs ==
    [popen : {"oserror", "exited", "alive"},
     opens_at : {1, StartupTimeout, StartupTimeout + 1},
     died : BOOLEAN,
     in_grace : BOOLEAN,
     found : BOOLEAN]

\* The body of launch_tor_daemon (one invocation by its retry wrapper).
launch_tor_daemon(ps, which, env) ==
    IF ~which
    THEN [procs |-> ps, res |-> Err("TorError"), timed_out |-> FALSE]
    ELSE IF env.popen = "oserror"
    THEN [procs |-> ps, res |-> Err("TorError"), timed_out |-> FALSE]
    ELSE IF env.popen = "exited"
    THEN [procs |-> Append(ps, NewProcess("exited")),
          res |-> Err("TorError"), timed_out |-> FALSE]
    ELSE IF wait_for_port(env.opens_at, StartupTimeout)
    THEN [procs |-> Append(ps, NewProcess("alive")),
          res |-> Ok("process"), timed_out |-> FALSE]
    ELSE LET p == NewProcess(IF env.died THEN "exited" ELSE "alive")
         IN  [procs |-> Append(ps, terminate_process_tree(p, env.in_grace,
                                                        env.found)),
              res |-> Err("TorConnectionError"), timed_out |-> TRUE]

\* terminate_process, the callback the pool registers for its daemon.
terminate_process(p, in_grace, found) ==
    terminate_process_tree(p, in_grace, found)

-----------------------------------------------------------------------------
(* tor/controller.py and search/sync.py: the synchronous circuit. *)

\* A WebSearch with its TorController.  controller: self._controller is set;
\* socket: the controller's _socket; closes counts the closes of that socket.
NewWebSearch ==
    [controller |-> TRUE, socket |-> "open", authenticated |-> TRUE,
     ddgs |-> TRUE, query_counter |-> 0, closes |-> 0]

\* TorController._send_command.  resp is what the daemon does with the
\* command: a status line ("250", "other"), a closed connection ("eof") or a
\* socket error ("oserror").
send_command(s, resp) ==
    IF s.socket = "none"
    THEN [sent |-> 0, res |-> Err("TorConnectionError")]
    ELSE IF s.socket = "unconnected"
    THEN [sent |-> 0, res |-> Err("TorCommandError")]
    ELSE IF resp = "oserror"
    THEN [sent |-> 1, res |-> Err("TorCommandError")]
    ELSE [sent |-> 1, res |-> Ok(IF resp = "eof" THEN "" ELSE resp)]

\* TorController.new_identity.
new_identity(s, resp) ==
    IF ~s.authenticated
    THEN [sent |-> 0, res |-> Err("TorError")]
    ELSE LET r == send_command(s, resp)
         IN  IF ~r.res.ok THEN r
             ELSE IF r.res.val # "250"
             THEN [sent |-> r.sent, res |-> Err("TorCommandError")]
             ELSE [sent |-> r.sent, res |-> Ok("None")]

\* A _rotate_identity that leaves the counter as it is.
rotate_identity_KeepCounter(s, resp) ==
    IF ~s.controller
    THEN [c |-> s, sent |-> 0, res |-> Err("TorError"), rot_ok |-> FALSE]
    ELSE LET r == new_identity(s, resp)
         IN  IF r.res.ok
             THEN [c |-> [s EXCEPT !.ddgs = TRUE],
                   sent |-> r.sent, res |-> Ok("None"), rot_ok |-> TRUE]
             ELSE [c |-> s, sent |-> r.sent, res |-> Err("TorError"),
                   rot_ok |-> FALSE]

\* WebSearch._rotate_identity.
rotate_identity(s, resp) ==
    IF ~s.controller
    THEN [c |-> s, sent |-> 0, res |-> Err("TorError"), rot_ok |-> FALSE]
    ELSE LET r == new_identity(s, resp)
         IN  IF r.res.ok
             THEN [c |-> [s EXCEPT !.query_counter = 0, !.ddgs = TRUE],
                   sent |-> r.sent, res |-> Ok("None"), rot_ok |-> TRUE]
             ELSE [c |-> s, sent |-> r.sent, res |-> Err("TorError"),
                   rot_ok |-> FALSE]

\* What one invocation of a circuit's search did: the circuit afterwards, the
\* result, the operation's outcome ("none" when it was not invoked), the
\* calls of _rotate_identity, the rotation commands written to the control
\* socket, whether the daemon accepted a rotation, and the exception the
\* raised one was raised from.  The last seven fields are filled in by the
\* observer: the circuit's counter before the invocation, whether the
\* circuit's previous successful operation ended in a rotation, the
\* operations, rotation commands, blocked operations and failed setups of
\* the control session of the whole call, and whether the circuit held an
\* authenticated control session when the operation was invoked.
Attempt(c, res, op, rot_tries, rot_cmds, rot_ok, cause) ==
    [c |-> c, res |-> res, op |-> op, rot_tries |-> rot_tries,
     rot_cmds |-> rot_cmds, rot_ok |-> rot_ok, cause |-> cause,
     counter_before |-> 0, after_rot |-> FALSE,
     call_ops |-> 0, call_rot_cmds |-> 0, call_blocked |-> 0,
     call_setup_failed |-> 0, op_authenticated |-> FALSE]

\* A search whose except block rotates on every failure of the operation.
WebSearch_search_RotateOnAnyFailure(s, m, env) ==
    IF ~s.ddgs
    THEN Attempt(s, Err("SearchClientNotInitializedError"), "none", 0, 0,
                 FALSE, "None")
    ELSE IF env.op = "ok"
    THEN LET s1 == [s EXCEPT !.query_counter = @ + 1]
         IN  IF s1.query_counter >= m
             THEN LET r == rotate_identity(s1, env.resp)
                  IN  IF r.res.ok
                      THEN Attempt(r.c, Ok("results"), "ok", 1, r.sent, TRUE,
                                   "None")
                      ELSE Attempt(r.c, Err("SearchFailedError"), "ok", 1,
                                   r.sent, FALSE, "TorError")
             ELSE Attempt(s1, Ok("results"), "ok", 0, 0, FALSE, "None")
    ELSE LET r == rotate_identity(s, env.resp)
         IN  IF r.res.ok
             THEN Attempt(r.c, Err("SearchFailedError"), env.op, 1, r.sent,
                          TRUE, "OpError")
             ELSE Attempt(r.c, Err("TorError"), env.op, 1, r.sent, FALSE,
                          "TorCommandError")

\* A search whose except block does not look for the block marker.
WebSearch_search_NoBlockRotation(s, m, env) ==
    IF ~s.ddgs
    THEN Attempt(s, Err("SearchClientNotInitializedError"), "none", 0, 0,
                 FALSE, "None")
    ELSE IF env.op = "ok"
    THEN LET s1 == [s EXCEPT !.query_counter = @ + 1]
         IN  IF s1.query_counter >= m
             THEN LET r == rotate_identity(s1, env.resp)
                  IN  IF r.res.ok
                      THEN Attempt(r.c, Ok("results"), "ok", 1, r.sent, TRUE,
                                   "None")
                      ELSE Attempt(r.c, Err("SearchFailedError"), "ok", 1,
                                   r.sent, FALSE, "TorError")
             ELSE Attempt(s1, Ok("results"), "ok", 0, 0, FALSE, "None")
    ELSE Attempt(s, Err("SearchFailedError"), env.op, 0, 0, FALSE, "OpError")

\* The body of WebSearch.search (one invocation by its retry wrapper).
\* env.op is what the caller's operation does: "ok", "fail" (an error without
\* the block marker) or "fail403" (an error whose text carries "403").
WebSearch_search(s, m, env) ==
    IF ~s.ddgs
    THEN Attempt(s, Err("SearchClientNotInitializedError"), "none", 0, 0,
                 FALSE, "None")
    ELSE IF env.op = "ok"
    THEN LET s1 == [s EXCEPT !.query_counter = @ + 1]
         IN  IF s1.query_counter >= m
             THEN LET r == rotate_identity(s1, env.resp)
                  IN  IF r.res.ok
                      THEN Attempt(r.c, Ok("results"), "ok", 1, r.sent, TRUE,
                                   "None")
                      ELSE Attempt(r.c, Err("SearchFailedError"), "ok", 1,
                                   r.sent, FALSE, "TorError")
             ELSE Attempt(s1, Ok("results"), "ok", 0, 0, FALSE, "None")
    ELSE IF env.op = "fail403"
    THEN LET r == rotate_identity(s, env.resp)
         IN  IF r.res.ok
             THEN Attempt(r.c, Err("SearchFailedError"), "fail403", 1, r.sent,
                          TRUE, "OpError")
             ELSE Attempt(r.c, Err("TorError"), "fail403", 1, r.sent, FALSE,
                          "TorCommandError")
    ELSE Attempt(s, Err("SearchFailedError"), "fail", 0, 0, FALSE, "OpError")

\* TorController.close, then WebSearch.close.
TorController_close(s) ==
    IF s.socket # "none"
    THEN [s EXCEPT !.socket = "none", !.authenticated = FALSE,
                   !.closes = @ + 1]
    ELSE s

WebSearch_close(s) ==
    LET s1 == [s EXCEPT !.ddgs = FALSE]
    IN  IF s1.controller
        THEN [TorController_close(s1) EXCEPT !.controller = FALSE]
        ELSE s1

-----------------------------------------------------------------------------
(* search/async_search.py: the asynchronous circuit. *)

\* An AsyncWebSearch.  writer: _tor_writer (and _tor_reader) is "none", an
\* open stream, or a stream that was closed but is still referenced; auth:
\* whether AUTHENTICATE was answered 250 on that stream; orphaned: an open
\* stream was replaced without being closed (and stays open); reclosed:
\* close() was called on a stream on which it had been called before.
NewAsyncWebSearch ==
    [session |-> FALSE, writer |-> "none", auth |-> FALSE,
     orphaned |-> FALSE,
     query_counter |-> 0, reclosed |-> FALSE]

\* AsyncWebSearch._send_tor_command.  The daemon answers a rotation command
\* with 250 only on a connection that has authenticated.
send_tor_command(a, command, resp) ==
    IF a.writer = "none"
    THEN [sent |-> 0, res |-> Err("TorConnectionError")]
    ELSE IF a.writer = "closed"
    THEN [sent |-> 0, res |-> Err("TorCommandError")]
    ELSE IF resp = "oserror"
    THEN [sent |-> 1, res |-> Err("TorCommandError")]
    ELSE IF resp = "eof"
    THEN [sent |-> 1, res |-> Err("IncompleteReadError")]
    ELSE IF command = "SIGNAL NEWNYM" /\ ~a.auth
    THEN [sent |-> 1, res |-> Ok("other")]
    ELSE [sent |-> 1, res |-> Ok(resp)]

\* AsyncWebSearch._authenticate_tor.
authenticate_tor(a, resp) ==
    LET r == send_tor_command(a, "AUTHENTICATE", resp)
    IN  IF ~r.res.ok THEN [c |-> a, res |-> r.res]
        ELSE IF r.res.val # "250"
        THEN [c |-> a, res |-> Err("TorAuthenticationError")]
        ELSE [c |-> [a EXCEPT !.auth = TRUE], res |-> Ok("None")]

\* AsyncWebSearch._connect_tor_control.  conn: whether the control port
\* accepts the connection.
connect_tor_control(a, conn, resp) ==
    IF conn # "ok"
    THEN [c |-> a, res |-> Err("TorConnectionError")]
    ELSE authenticate_tor(
             [a EXCEPT !.writer = "open", !.auth = FALSE,
                       !.orphaned = @ \/ (a.writer = "open")],
             resp)

\* AsyncWebSearch._initialize_session.
initialize_session(a, conn, resp) ==
    connect_tor_control([a EXCEPT !.session = TRUE], conn, resp)

\* AsyncWebSearch._rotate_identity.
async_rotate_identity(a, env) ==
    LET r == send_tor_command(a, "SIGNAL NEWNYM", env.resp)
    IN  IF ~r.res.ok \/ r.res.val # "250"
        THEN [c |-> a, sent |-> r.sent, res |-> Err("TorError"),
              rot_ok |-> FALSE]
        ELSE LET i == initialize_session([a EXCEPT !.query_counter = 0],
                                         env.reinit.conn, env.reinit.auth)
             IN  [c |-> i.c, sent |-> r.sent,
                  res |-> IF i.res.ok THEN Ok("None") ELSE Err("TorError"),
                  rot_ok |-> TRUE]

\* The body of AsyncWebSearch.search (one invocation by its retry wrapper).
AsyncWebSearch_search(a, m, env) ==
    LET pre == IF ~a.session
               THEN initialize_session(a, env.init.conn, env.init.auth)
               ELSE [c |-> a, res |-> Ok("None")]
        b == pre.c
    IN  IF ~pre.res.ok
        THEN Attempt(b, pre.res, "none", 0, 0, FALSE, "None")
        ELSE IF env.op = "ok"
        THEN LET b1 == [b EXCEPT !.query_counter = @ + 1]
             IN  IF b1.query_counter >= m
                 THEN LET r == async_rotate_identity(b1, env)
                      IN  IF r.res.ok
                          THEN Attempt(r.c, Ok("results"), "ok", 1, r.sent,
                                       TRUE, "None")
                          ELSE Attempt(r.c, Err("SearchFailedError"), "ok", 1,
                                       r.sent, r.rot_ok, "TorError")
                 ELSE Attempt(b1, Ok("results"), "ok", 0, 0, FALSE, "None")
        ELSE IF env.op = "fail403"
        THEN LET r == async_rotate_identity(b, env)
             IN  IF r.res.ok
                 THEN Attempt(r.c, Err("SearchFailedError"), "fail403", 1,
                              r.sent, TRUE, "OpError")
                 ELSE Attempt(r.c, Err("TorError"), "fail403", 1, r.sent,
                              r.rot_ok, "TorCommandError")
        ELSE Attempt(b, Err("SearchFailedError"), "fail", 0, 0, FALSE,
                     "OpError")

\* AsyncWebSearch.aclose.  lost: whether wait_closed() raises for the stream
\* (the connection was lost with an error); it raises again for a stream on
\* which it raised before.
AsyncWebSearch_aclose(a, lost) ==
    LET a1 == [a EXCEPT !.session = FALSE]
    IN  IF a1.writer = "none"
        THEN [c |-> a1, res |-> Ok("None")]
        ELSE LET a2 == [a1 EXCEPT !.reclosed = @ \/ (a1.writer = "closed")]
             IN  IF lost \/ a1.writer = "closed"
                 THEN [c |-> [a2 EXCEPT !.writer = "closed", !.auth = FALSE],
                       res |-> Err("ConnectionResetError")]
                 ELSE [c |-> [a2 EXCEPT !.writer = "none", !.auth = FALSE],
                       res |-> Ok("None")]

\* What the environment may decide when a control connection is opened and
\* authenticated: the daemon accepts connections only while it is alive.
ConnectEnvs(alive) ==
    {[conn |-> "refused", auth |-> "None"]}
    \cup (IF alive
          THEN [conn : {"ok"}, auth : {"250", "other", "oserror", "eof"}]
          ELSE {})

NoConnect == [conn |-> "refused", auth |-> "None"]

\* What the environment may decide for one invocation of a WebSearch's
\* search: the daemon serves the proxy and answers only while it is alive.
SyncSearchEnvs(alive) ==
    [op : IF alive THEN {"ok", "fail", "fail403"} ELSE {"fail", "fail403"},
     resp : IF alive THEN {"250", "other", "oserror", "eof"}
            ELSE {"oserror", "eof"}]

\* The same for an AsyncWebSearch a, which opens a control connection when
\* it has no session (init) and after an accepted rotation (reinit).
AsyncSearchEnvs(alive, a) ==
    {e \in [op : IF alive THEN {"ok", "fail", "fail403"}
                 ELSE {"fail", "fail403"},
            resp : IF alive THEN {"250", "other", "oserror", "eof"}
                   ELSE {"oserror", "eof"},
            init : ConnectEnvs(alive),
            reinit : ConnectEnvs(alive)] :
        /\ a.session => e.init = NoConnect
        /\ e.resp # "250" => e.reinit = NoConnect}

-----------------------------------------------------------------------------
(* search/pool.py, and the pool facades of search/sync.py and              *)
(* search/async_search.py.                                                 *)

LaunchMaxRetries == 3
LaunchSleepTime == 2
SearchMaxRetries == 3
SearchSleepTime == 1

Callback(f, arg) == [f |-> f, arg |-> arg]

\* Teardown calls: how many have ended, the position of aclose's loop,
\* whether a step of one raised, and how often the data directory was
\* removed.
NoTeardown == [count |-> 0, j |-> 0, failed |-> FALSE, rmtrees |-> 0]

NoAttempt == Attempt(0, Ok("None"), "none", 0, 0, FALSE, "None")

\* A call of the public interface: what it is and how it ended.
\* A call of a public operation; error: the kind of the exception it raised.
NewCall(kind) ==
    [kind |-> kind, status |-> "running", error |-> "None"]

NewHist == [ok_since |-> 0, refused |-> FALSE, prev_ok_rotated |-> FALSE]

DaemonAlive ==
    tor_process # 0 /\ procs[tor_process].state = "alive"

Circuits == 1..num_circuits

\* An iterator that hands out a circuit without advancing.
CycleNextStuck(c, n) == [circuit |-> c + 1, cursor |-> c]

\* An iterator that advances by two.
CycleNextSkips(c, n) == [circuit |-> c + 1, cursor |-> (c + 2) % n]

\* next() on cycle(searches): the circuit handed out and the cursor after it.
CycleNext(c, n) == [circuit |-> c + 1, cursor |-> (c + 1) % n]

\* Disconnected, Connected or Authenticated.
SessionState(c) ==
    IF c.socket # "open" THEN "Disconnected"
    ELSE IF c.authenticated THEN "Authenticated" ELSE "Connected"

\* A TorController as its constructor leaves it.  socket: "none", "open"
\* (connected) or "unconnected" (created, its connect failed).
NewTorController ==
    [socket |-> "none", authenticated |-> FALSE, closes |-> 0]

\* The lone controller before any call.  Observed with it: the number of
\* calls made (n), the last call (last), whether it returned (ok) and wrote
\* to the network (wrote), the state it found (from), and whether a connect
\* or an authenticate had failed before it (failed_before) or has by now
\* (failed), and whether AUTHENTICATE has been answered 250 on the socket
\* the controller holds now (socket_authenticated), the exception the last
\* call raised (error) and what the daemon did with the command the last
\* call wrote (heard).
NoController ==
    [c |-> NewTorController, n |-> 0, last |-> "none", ok |-> TRUE,
     wrote |-> FALSE, from |-> "Disconnected", failed_before |-> FALSE,
     failed |-> FALSE, socket_authenticated |-> FALSE, error |-> "None",
     heard |-> "none"]

\* A caller that is not in a throttled search.
NoThrottle ==
    [pc |-> "idle", c |-> 0, min_interval |-> 0, now |-> 0, sleep |-> 0,
     slept_from |-> 0]

\* No clock, no concurrent caller, no lone controller, no identity.
NoSide ==
    /\ clock = 0
    /\ last_request_time = <<>>
    /\ throttle = NoThrottle
    /\ starts = <<>>
    /\ threads = <<>>
    /\ rotation_lock = 0
    /\ rotations = <<>>
    /\ controller = NoController
    /\ identities = <<>>

\* The ports find_free_port may hand out.
FreePorts == 1..MaxPorts

\* No port allocated yet.  socks, control: the locals socks_port and
\* control_port of create_tor_pool (0: unset); launched: the ports passed to
\* each invocation of launch_tor_daemon; sync, async: _socks_port and
\* _control_port of each WebSearch and AsyncWebSearch.
NoPorts ==
    [socks |-> 0, control |-> 0, launched |-> <<>>, sync |-> <<>>,
     async |-> <<>>]

\* A circuit constructor that mixes up its two port arguments.
CircuitPorts_Swapped(socks_port, control_port) ==
    [socks_port |-> control_port, control_port |-> socks_port]

\* `self._socks_port = socks_port; self._control_port = control_port` of the
\* constructors of WebSearch and AsyncWebSearch.
CircuitPorts(socks_port, control_port) ==
    [socks_port |-> socks_port, control_port |-> control_port]

\* The ports of a constructed pool of n circuits.
PoolPorts(socks_port, control_port, n) ==
    [socks |-> socks_port, control |-> control_port,
     launched |-> <<[socks_port |-> socks_port,
                     control_port |-> control_port]>>,
     sync |-> [k \in 1..n |-> CircuitPorts(socks_port, control_port)],
     async |-> [k \in 1..n |-> CircuitPorts(socks_port, control_port)]]

\* Before the pool's constructor calls create_tor_pool.
InitCreate ==
    /\ NoSide
    /\ ports = NoPorts
    /\ facade \in {"Shoyu", "AsyncShoyu"}
    /\ num_circuits \in 1..MaxCircuits
    /\ max_queries_per_identity \in 1..MaxQueries
    /\ tor_in_path \in BOOLEAN
    /\ pc = "new"
    /\ data_dir = "none"
    /\ stack = <<>>
    /\ procs = <<>>
    /\ tor_process = 0
    /\ sync_searches = <<>>
    /\ async_searches = <<>>
    /\ cursor = 0
    /\ cur = 0
    /\ w = NoFrame
    /\ picks = <<>>
    /\ att = NoAttempt
    /\ call = NewCall("none")
    /\ hist = <<>>
    /\ launches = <<>>
    /\ td = NoTeardown

\* A pool whose constructor has returned: the daemon was launched at the
\* first attempt and every circuit was constructed.
InitPool ==
    /\ facade \in {"Shoyu", "AsyncShoyu"}
    /\ num_circuits \in 1..MaxCircuits
    /\ max_queries_per_identity \in 1..MaxQueries
    /\ tor_in_path = TRUE
    /\ pc = "idle"
    /\ data_dir = "exists"
    /\ stack = <<Callback("rmtree", 0), Callback("terminate_process", 1)>>
               \o [k \in 1..num_circuits |-> Callback("close", k)]
    /\ procs = <<NewProcess("alive")>>
    /\ tor_process = 1
    /\ sync_searches = [k \in 1..num_circuits |-> NewWebSearch]
    /\ async_searches = [k \in 1..num_circuits |-> NewAsyncWebSearch]
    /\ cursor = 0
    /\ cur = 0
    /\ w = NoFrame
    /\ picks = <<>>
    /\ att = NoAttempt
    /\ call = [NewCall("create") EXCEPT !.status = "returned"]
    /\ hist = [k \in 1..num_circuits |-> NewHist]
    /\ launches = <<[error |-> "None", timed_out |-> FALSE, proc |-> 1]>>
    /\ td = NoTeardown
    /\ ports = PoolPorts(1, MaxPorts, num_circuits)

Init ==
    /\ InitPool
    /\ NoSide

\* create_tor_pool up to the launch of the daemon: the data directory is
\* created and its removal registered, and find_free_port is called twice.
CreateBegin ==
    /\ pc = "new"
    /\ pc' = "launch"
    /\ \E socks_port \in FreePorts, control_port \in FreePorts :
         ports' = [ports EXCEPT !.socks = socks_port,
                                !.control = control_port]
    /\ data_dir' = "exists"
    /\ stack' = <<Callback("rmtree", 0)>>
    /\ w' = NewFrame(LaunchMaxRetries, LaunchSleepTime, TRUE, {}, TRUE)
    /\ call' = NewCall("create")
    /\ UNCHANGED <<sideVars, facade, num_circuits, max_queries_per_identity,
                   tor_in_path, procs, tor_process, sync_searches,
                   async_searches, cursor, cur, picks, att, hist, launches,
                   td>>

\* One invocation of launch_tor_daemon by its retry wrapper; when the wrapper
\* returns, the daemon's termination is registered; when it raises,
\* create_tor_pool raises.
LaunchAttempt ==
    /\ pc = "launch"
    /\ \E env \in LaunchEnvs :
         LET r == launch_tor_daemon(procs, tor_in_path, env)
             f == wrapper(w, r.res)
         IN  /\ procs' = r.procs
             /\ w' = IF f.status = "running" THEN f ELSE NoFrame
             /\ ports' = [ports EXCEPT
                            !.launched = Append(@, [socks_port |-> ports.socks,
                                                    control_port |->
                                                        ports.control])]
             /\ launches' = Append(launches,
                    [error |-> IF r.res.ok THEN "None" ELSE r.res.val,
                     timed_out |-> r.timed_out,
                     proc |-> IF Len(r.procs) > Len(procs)
                              THEN Len(r.procs) ELSE 0])
             /\ IF f.status = "returned"
                THEN /\ tor_process' = Len(r.procs)
                     /\ stack' = Append(stack,
                                        Callback("terminate_process",
                                                 Len(r.procs)))
                     /\ pc' = "circuits"
                     /\ call' = call
                ELSE IF f.status = "raised"
                THEN /\ pc' = "failed"
                     /\ call' = [call EXCEPT !.status = "raised",
                                             !.error = f.value]
                     /\ UNCHANGED <<tor_process, stack>>
                ELSE UNCHANGED <<tor_process, stack, pc, call>>
    /\ UNCHANGED <<sideVars, facade, num_circuits, max_queries_per_identity,
                   tor_in_path, data_dir, sync_searches, async_searches,
                   cursor, cur, picks, att, hist, td>>

\* One iteration of create_tor_pool's loop: a WebSearch is constructed (its
\* controller connects and authenticates) and its close registered, then an
\* AsyncWebSearch is constructed.  After the last one the pool is returned
\* and the facade takes cycle(...) of its circuits.
CircuitInit ==
    /\ pc = "circuits"
    /\ \E conn \in IF DaemonAlive THEN {"ok", "refused"} ELSE {"refused"},
          auth \in {"250", "other", "oserror", "eof"} :
         IF conn = "ok" /\ auth = "250"
         THEN /\ sync_searches' = Append(sync_searches, NewWebSearch)
              /\ async_searches' = Append(async_searches, NewAsyncWebSearch)
              /\ hist' = Append(hist, NewHist)
              /\ ports' = [ports EXCEPT
                             !.sync = Append(@, CircuitPorts(ports.socks,
                                                             ports.control)),
                             !.async = Append(@, CircuitPorts(ports.socks,
                                                              ports.control))]
              /\ stack' = Append(stack,
                                 Callback("close", Len(sync_searches) + 1))
              /\ IF Len(sync_searches) + 1 = num_circuits
                 THEN /\ pc' = "idle"
                      /\ call' = [call EXCEPT !.status = "returned"]
                 ELSE UNCHANGED <<pc, call>>
         ELSE /\ pc' = "failed"
              /\ call' = [call EXCEPT
                            !.status = "raised",
                            !.error =
                                IF conn # "ok" THEN "TorConnectionError"
                                ELSE IF send_command(NewWebSearch, auth).res.ok
                                THEN "TorAuthenticationError"
                                ELSE send_command(NewWebSearch, auth).res.val]
              /\ UNCHANGED <<sync_searches, async_searches, hist, stack,
                             ports>>
    /\ UNCHANGED <<sideVars, facade, num_circuits, max_queries_per_identity,
                   tor_in_path, data_dir, procs, tor_process, cursor, cur, w,
                   picks, att, launches, td>>

\* Shoyu.search / AsyncShoyu.search up to the call of the circuit's search:
\* next(self._circuit_pool).  The caller searches before it tears down.
SearchBegin(limit) ==
    /\ pc = "idle"
    /\ td.count = 0
    /\ Len(picks) < limit
    /\ LET n == CycleNext(cursor, num_circuits)
       IN  /\ cur' = n.circuit
           /\ cursor' = n.cursor
           /\ picks' = Append(picks, n.circuit)
    /\ pc' = "search"
    /\ w' = NewFrame(SearchMaxRetries, SearchSleepTime, TRUE, {}, FALSE)
    /\ call' = NewCall("search")
    /\ UNCHANGED <<sideVars, ports, facade, num_circuits, max_queries_per_identity,
                   tor_in_path, data_dir, stack, procs, tor_process,
                   sync_searches, async_searches, att, hist, launches, td>>

\* The invocations of circuit cur's search under this environment.
SearchEnvs ==
    IF facade = "Shoyu" THEN SyncSearchEnvs(DaemonAlive)
    ELSE AsyncSearchEnvs(DaemonAlive, async_searches[cur])

search(env) ==
    IF facade = "Shoyu"
    THEN WebSearch_search(sync_searches[cur], max_queries_per_identity, env)
    ELSE AsyncWebSearch_search(async_searches[cur], max_queries_per_identity,
                               env)

\* One invocation a of the picked circuit's search by its retry wrapper:
\* retry for a WebSearch, async_retry for an AsyncWebSearch.
Invoked(a) ==
    LET f == IF facade = "Shoyu" THEN wrapper(w, a.res)
             ELSE async_wrapper(w, a.res)
    IN  /\ IF facade = "Shoyu"
           THEN /\ sync_searches' = [sync_searches EXCEPT ![cur] = a.c]
                /\ UNCHANGED async_searches
           ELSE /\ async_searches' = [async_searches EXCEPT ![cur] = a.c]
                /\ UNCHANGED sync_searches
        /\ w' = IF f.status = "running" THEN f ELSE NoFrame
        /\ call' = [call EXCEPT
                      !.status = IF f.status = "running" THEN @ ELSE f.status,
                      !.error = IF f.status = "raised" THEN f.value ELSE @]
        /\ pc' = IF f.status = "running" THEN "search" ELSE "idle"

SearchAttempt ==
    /\ pc = "search"
    /\ \E env \in SearchEnvs : Invoked(search(env))
    /\ UNCHANGED <<sideVars, ports, facade, num_circuits, max_queries_per_identity,
                   tor_in_path, data_dir, stack, procs, tor_process, cursor,
                   cur, picks, att, hist, launches, td>>

\* The teardown call in progress returns or raises.
TeardownEnds(c, error, t) ==
    /\ pc' = "idle"
    /\ td' = [t EXCEPT !.count = @ + 1, !.j = 0,
                       !.failed = @ \/ error # "None"]
    /\ call' = [c EXCEPT !.status = IF error = "None" THEN "returned"
                                    ELSE "raised",
                         !.error = error]

\* Shoyu.close or AsyncShoyu.close: self._stack.close().
CloseBegin ==
    /\ pc = "idle"
    /\ td.count < MaxTeardowns
    /\ IF stack = <<>>
       THEN TeardownEnds(NewCall("close"), "None", td)
       ELSE /\ pc' = "stack"
            /\ call' = NewCall("close")
            /\ td' = td
    /\ UNCHANGED <<sideVars, ports, facade, num_circuits, max_queries_per_identity,
                   tor_in_path, data_dir, stack, procs, tor_process,
                   sync_searches, async_searches, cursor, cur, w, picks, att,
                   hist, launches>>

\* AsyncShoyu.aclose up to its loop over the circuits.
AcloseBegin ==
    /\ pc = "idle"
    /\ facade = "AsyncShoyu"
    /\ td.count < MaxTeardowns
    /\ pc' = "aclose"
    /\ call' = NewCall("aclose")
    /\ td' = [td EXCEPT !.j = 1]
    /\ UNCHANGED <<sideVars, ports, facade, num_circuits, max_queries_per_identity,
                   tor_in_path, data_dir, stack, procs, tor_process,
                   sync_searches, async_searches, cursor, cur, w, picks, att,
                   hist, launches>>

\* One iteration of AsyncShoyu.aclose's loop: await search.aclose().  An
\* exception ends aclose; after the last circuit comes self._stack.close().
AcloseStep ==
    /\ pc = "aclose"
    /\ \E lost \in BOOLEAN :
         LET r == AsyncWebSearch_aclose(async_searches[td.j], lost)
         IN  /\ async_searches' = [async_searches EXCEPT ![td.j] = r.c]
             /\ IF ~r.res.ok
                THEN TeardownEnds(call, r.res.val, td)
                ELSE IF td.j < num_circuits
                THEN /\ td' = [td EXCEPT !.j = @ + 1]
                     /\ UNCHANGED <<pc, call>>
                ELSE IF stack = <<>>
                THEN TeardownEnds(call, "None", td)
                ELSE /\ pc' = "stack"
                     /\ td' = [td EXCEPT !.j = 0]
                     /\ call' = call
    /\ UNCHANGED <<sideVars, ports, facade, num_circuits, max_queries_per_identity,
                   tor_in_path, data_dir, stack, procs, tor_process,
                   sync_searches, cursor, cur, w, picks, att, hist,
                   launches>>

\* ExitStack.close: the callback registered last is taken off the stack and
\* called; after the first registered one the teardown returns.
StackStep ==
    /\ pc = "stack"
    /\ LET cb == stack[Len(stack)]
       IN  /\ stack' = SubSeq(stack, 1, Len(stack) - 1)
           /\ IF cb.f = "close"
              THEN /\ sync_searches' =
                        [sync_searches EXCEPT
                           ![cb.arg] = WebSearch_close(@)]
                   /\ UNCHANGED <<procs, data_dir>>
              ELSE IF cb.f = "terminate_process"
              THEN /\ \E in_grace, found \in BOOLEAN :
                        procs' = [procs EXCEPT
                                    ![cb.arg] =
                                        terminate_process(@, in_grace, found)]
                   /\ UNCHANGED <<sync_searches, data_dir>>
              ELSE /\ data_dir' = "removed"
                   /\ UNCHANGED <<sync_searches, procs>>
           /\ LET t == IF cb.f = "rmtree"
                       THEN [td EXCEPT !.rmtrees = @ + 1] ELSE td
              IN  IF Len(stack) = 1
                  THEN TeardownEnds(call, "None", t)
                  ELSE /\ td' = t
                       /\ UNCHANGED <<pc, call>>
    /\ UNCHANGED <<sideVars, ports, facade, num_circuits, max_queries_per_identity,
                   tor_in_path, tor_process, async_searches, cursor, cur, w,
                   picks, att, hist, launches>>

\* The daemon exits on its own.
DaemonExits ==
    /\ DaemonAlive
    /\ procs' = [procs EXCEPT ![tor_process].state = "exited"]
    /\ UNCHANGED <<sideVars, ports, facade, num_circuits, max_queries_per_identity,
                   tor_in_path, pc, data_dir, stack, tor_process,
                   sync_searches, async_searches, cursor, cur, w, picks, att,
                   call, hist, launches, td>>

\* The daemon starts a child process.
DaemonSpawns ==
    /\ DaemonAlive
    /\ procs[tor_process].children < MaxChildren
    /\ procs' = [procs EXCEPT ![tor_process].children = @ + 1]
    /\ UNCHANGED <<sideVars, ports, facade, num_circuits, max_queries_per_identity,
                   tor_in_path, pc, data_dir, stack, tor_process,
                   sync_searches, async_searches, cursor, cur, w, picks, att,
                   call, hist, launches, td>>

\* The teardown of a pool whose daemon has descendants.
NextTree ==
    \/ DaemonSpawns
    \/ DaemonExits
    \/ CloseBegin
    \/ StackStep

SpecTree == Init /\ [][NextTree]_vars

Next ==
    \/ SearchBegin(MaxSearches)
    \/ SearchAttempt
    \/ CloseBegin
    \/ AcloseBegin
    \/ AcloseStep
    \/ StackStep
    \/ DaemonExits

Spec == Init /\ [][Next]_vars

\* The searches of a pool that is not torn down.
NextRobin ==
    \/ SearchBegin(MaxCalls)
    \/ SearchAttempt
    \/ DaemonExits

SpecRobin == Init /\ [][NextRobin]_vars

\* One circuit of a constructed pool, called directly and observed.

InitCircuit ==
    /\ Init
    /\ num_circuits = 1

\* circuit.search(...) up to the first invocation by the retry wrapper.
CircuitSearchBegin ==
    /\ pc = "idle"
    /\ Len(picks) < MaxCalls
    /\ cur' = 1
    /\ picks' = Append(picks, 1)
    /\ pc' = "search"
    /\ w' = NewFrame(SearchMaxRetries, SearchSleepTime, TRUE, {}, FALSE)
    /\ call' = NewCall("search")
    /\ att' = NoAttempt
    /\ UNCHANGED <<sideVars, ports, facade, num_circuits, max_queries_per_identity,
                   tor_in_path, data_dir, stack, procs, tor_process,
                   sync_searches, async_searches, cursor, hist, launches, td>>

\* The observations of a circuit after invocation a.
HistAfter(h, a) ==
    [ok_since |-> IF a.rot_ok THEN 0
                  ELSE IF a.op = "ok" THEN h.ok_since + 1 ELSE h.ok_since,
     refused |-> h.refused \/ (a.rot_tries > 0 /\ ~a.rot_ok),
     prev_ok_rotated |-> IF a.op = "ok" THEN a.rot_ok ELSE h.prev_ok_rotated]

Counter == IF facade = "Shoyu" THEN sync_searches[cur].query_counter
           ELSE async_searches[cur].query_counter

\* Whether circuit cur holds an authenticated control session at the point
\* where search invokes the operation: for an AsyncWebSearch, after the
\* lazy `if not self._session: await self._initialize_session()`.
AuthenticatedAtOperation(env) ==
    IF facade = "Shoyu"
    THEN SessionState(sync_searches[cur]) = "Authenticated"
    ELSE LET a == async_searches[cur]
             b == IF ~a.session
                  THEN initialize_session(a, env.init.conn, env.init.auth).c
                  ELSE a
         IN  b.writer = "open" /\ b.auth

\* One invocation of the circuit's search by its retry wrapper, observed.
CircuitSearchAttempt ==
    /\ pc = "search"
    /\ \E env \in SearchEnvs :
         LET a == search(env)
         IN  /\ Invoked(a)
             /\ att' = [a EXCEPT
                          !.c = cur,
                          !.counter_before = Counter,
                          !.after_rot = hist[cur].prev_ok_rotated,
                          !.call_ops = att.call_ops
                                       + (IF a.op = "none" THEN 0 ELSE 1),
                          !.call_rot_cmds = att.call_rot_cmds + a.rot_cmds,
                          !.call_blocked = att.call_blocked
                                           + (IF a.op = "fail403" THEN 1
                                              ELSE 0),
                          !.call_setup_failed =
                              att.call_setup_failed
                              + (IF facade = "AsyncShoyu" /\ a.op = "none"
                                 THEN 1 ELSE 0),
                          !.op_authenticated = AuthenticatedAtOperation(env)]
             /\ hist' = [hist EXCEPT ![cur] = HistAfter(@, a)]
    /\ UNCHANGED <<sideVars, ports, facade, num_circuits, max_queries_per_identity,
                   tor_in_path, data_dir, stack, procs, tor_process, cursor,
                   cur, picks, launches, td>>

NextCircuit ==
    \/ CircuitSearchBegin
    \/ CircuitSearchAttempt
    \/ DaemonExits

SpecCircuit == InitCircuit /\ [][NextCircuit]_vars

\* WebSearch.close or AsyncWebSearch.aclose on the circuit, between two
\* calls of its search.
CircuitClose ==
    /\ pc = "idle"
    /\ td.count < MaxTeardowns
    /\ \E lost \in BOOLEAN :
         LET r == IF facade = "Shoyu"
                  THEN [c |-> WebSearch_close(sync_searches[1]),
                        res |-> Ok("None")]
                  ELSE AsyncWebSearch_aclose(async_searches[1], lost)
         IN  /\ IF facade = "Shoyu"
                THEN /\ sync_searches' = [sync_searches EXCEPT ![1] = r.c]
                     /\ UNCHANGED async_searches
                ELSE /\ async_searches' = [async_searches EXCEPT ![1] = r.c]
                     /\ UNCHANGED sync_searches
             /\ TeardownEnds(NewCall("close"), IF r.res.ok THEN "None"
                                               ELSE r.res.val, td)
    /\ att' = NoAttempt
    /\ UNCHANGED <<sideVars, ports, facade, num_circuits,
                   max_queries_per_identity, tor_in_path, data_dir, stack,
                   procs, tor_process, cursor, cur, w, picks, hist, launches>>

\* One circuit, searched and closed in any order.
NextClosed ==
    \/ CircuitSearchBegin
    \/ CircuitSearchAttempt
    \/ CircuitClose
    \/ DaemonExits

SpecClosed == InitCircuit /\ [][NextClosed]_vars

-----------------------------------------------------------------------------
(* The WebSearch and the AsyncWebSearch of one pool, given the same calls,  *)
(* the same outcomes of the operation and the same answers of the daemon.   *)

\* circuit.search(...) on both circuits, up to the first invocation.  w is
\* the frame of retry's wrapper, att.wa that of async_retry's; ops and
\* rot_cmds count the operations invoked and the rotation commands written
\* during the call by the WebSearch ([1]) and the AsyncWebSearch ([2]).
PairSearchBegin ==
    /\ pc = "idle"
    /\ Len(picks) < MaxSearches
    /\ cur' = 1
    /\ picks' = Append(picks, 1)
    /\ pc' = "search"
    /\ w' = NewFrame(SearchMaxRetries, SearchSleepTime, TRUE, {}, FALSE)
    /\ att' = [wa |-> NewFrame(SearchMaxRetries, SearchSleepTime, TRUE, {},
                               FALSE),
               ops |-> <<0, 0>>, rot_cmds |-> <<0, 0>>]
    /\ call' = NewCall("search")
    /\ UNCHANGED <<sideVars, ports, facade, num_circuits, max_queries_per_identity,
                   tor_in_path, data_dir, stack, procs, tor_process,
                   sync_searches, async_searches, cursor, hist, launches, td>>

\* One invocation of search by each wrapper that is still running, under
\* the same environment; the connections only the AsyncWebSearch opens are
\* answered as the environment decides.
PairSearchAttempt ==
    /\ pc = "search"
    /\ \E env \in AsyncSearchEnvs(DaemonAlive, async_searches[1]) :
         LET s == WebSearch_search(sync_searches[1], max_queries_per_identity,
                                   [op |-> env.op, resp |-> env.resp])
             a == AsyncWebSearch_search(async_searches[1],
                                        max_queries_per_identity, env)
             srun == w.status = "running"
             arun == att.wa.status = "running"
             fs == IF srun THEN wrapper(w, s.res) ELSE w
             fa == IF arun THEN async_wrapper(att.wa, a.res) ELSE att.wa
             done == fs.status # "running" /\ fa.status # "running"
         IN  /\ sync_searches' = IF srun
                                 THEN [sync_searches EXCEPT ![1] = s.c]
                                 ELSE sync_searches
             /\ async_searches' = IF arun
                                  THEN [async_searches EXCEPT ![1] = a.c]
                                  ELSE async_searches
             /\ w' = fs
             /\ att' = [wa |-> fa,
                        ops |-> <<att.ops[1]
                                  + (IF srun /\ s.op # "none" THEN 1 ELSE 0),
                                  att.ops[2]
                                  + (IF arun /\ a.op # "none" THEN 1 ELSE 0)>>,
                        rot_cmds |-> <<att.rot_cmds[1]
                                       + (IF srun THEN s.rot_cmds ELSE 0),
                                       att.rot_cmds[2]
                                       + (IF arun THEN a.rot_cmds ELSE 0)>>]
             /\ pc' = IF done THEN "idle" ELSE "search"
             /\ call' = IF done
                        THEN [call EXCEPT
                                !.status = fs.status,
                                !.error = IF fs.status = "raised"
                                          THEN fs.value ELSE "None"]
                        ELSE call
    /\ UNCHANGED <<sideVars, ports, facade, num_circuits, max_queries_per_identity,
                   tor_in_path, data_dir, stack, procs, tor_process, cursor,
                   cur, picks, hist, launches, td>>

\* WebSearch.close, which raises nothing, and AsyncWebSearch.aclose, whose
\* exception is the one recorded for the call.
PairClose ==
    /\ pc = "idle"
    /\ td.count < MaxTeardowns
    /\ \E lost \in BOOLEAN :
         LET r == AsyncWebSearch_aclose(async_searches[1], lost)
         IN  /\ sync_searches' =
                    [sync_searches EXCEPT ![1] = WebSearch_close(@)]
             /\ async_searches' = [async_searches EXCEPT ![1] = r.c]
             /\ TeardownEnds(NewCall("close"),
                             IF r.res.ok THEN "None" ELSE r.res.val, td)
    /\ UNCHANGED <<sideVars, ports, facade, num_circuits,
                   max_queries_per_identity, tor_in_path, data_dir, stack,
                   procs, tor_process, cursor, cur, w, picks, att, hist,
                   launches>>

NextPair ==
    \/ PairSearchBegin
    \/ PairSearchAttempt
    \/ PairClose
    \/ DaemonExits

SpecPair == InitCircuit /\ [][NextPair]_vars

\* The construction of a pool.
NextCreate ==
    \/ CreateBegin
    \/ LaunchAttempt
    \/ CircuitInit
    \/ DaemonExits

SpecCreate == InitCreate /\ [][NextCreate]_vars

\* A pool from its construction to its teardown: the ports.  Every
\* successful operation reaches the threshold and rotates.
InitPorts ==
    /\ InitCreate
    /\ tor_in_path
    /\ max_queries_per_identity = 1

NextPorts ==
    \/ CreateBegin
    \/ LaunchAttempt
    \/ CircuitInit
    \/ SearchBegin(MaxPortSearches)
    \/ SearchAttempt
    \/ CloseBegin
    \/ StackStep
    \/ DaemonExits

SpecPorts == InitPorts /\ [][NextPorts]_vars

-----------------------------------------------------------------------------
(* The retry wrappers on their own, for every setting of their parameters. *)

\* The exceptions an operation raises here: one that is not a CoreError and
\* may be listed as not retryable, one that is never listed, a CoreError.
OpErrors == {"ValueError", "OpError", "TorError"}

InitRetry ==
    /\ facade \in {"Shoyu", "AsyncShoyu"}
    /\ num_circuits = 1
    /\ NoSide
    /\ ports = NoPorts
    /\ max_queries_per_identity = 1
    /\ tor_in_path = FALSE
    /\ pc = "retry"
    /\ data_dir = "none"
    /\ stack = <<>>
    /\ procs = <<>>
    /\ tor_process = 0
    /\ sync_searches = <<>>
    /\ async_searches = <<>>
    /\ cursor = 0
    /\ cur = 0
    /\ picks = <<>>
    /\ att = NoAttempt
    /\ call = NewCall("none")
    /\ hist = <<>>
    /\ launches = <<>>
    /\ td = NoTeardown
    /\ \E k \in 0..MaxRetries, sleep_time \in {0, 1},
          raises_on_exception \in BOOLEAN,
          non_retry_exceptions \in SUBSET {"ValueError", "TorError"},
          exponential_backoff \in BOOLEAN :
         w = NewFrame(k, sleep_time, raises_on_exception,
                      non_retry_exceptions, exponential_backoff)

\* One iteration of the loop of retry's wrapper (facade "Shoyu") or of
\* async_retry's (facade "AsyncShoyu"): the operation is invoked.
RetryInvoke ==
    /\ pc = "retry"
    /\ w.status = "running"
    /\ \E res \in {Ok("result")} \cup {Err(e) : e \in OpErrors} :
         w' = IF facade = "Shoyu" THEN wrapper(w, res)
              ELSE async_wrapper(w, res)
    /\ UNCHANGED <<poolVars, sideVars>>

NextRetry == RetryInvoke

SpecRetry == InitRetry /\ [][NextRetry]_vars

-----------------------------------------------------------------------------
(* The throttle of search: time, in ticks, and one caller who invokes the  *)
(* circuits of a constructed pool one invocation after another.  Between   *)
(* two invocations any time may pass (the operation, the randomized delay, *)
(* the sleep of the retry wrapper), none included.                         *)

\* A throttle that never sleeps.
SleepFor_NoThrottle(now, last, min_interval) == 0

\* The time search sleeps before the operation: `if now - last < min_interval:
\* sleep(min_interval - (now - last))`.
SleepFor(now, last, min_interval) ==
    IF now - last < min_interval THEN min_interval - (now - last) ELSE 0

InitThrottle ==
    /\ InitPool
    /\ clock \in {0, MaxInterval}
    /\ last_request_time = [c \in 1..num_circuits |-> 0]
    /\ \E m \in 1..MaxInterval :
         throttle = [NoThrottle EXCEPT !.min_interval = m]
    /\ starts = <<>>
    /\ threads = <<>>
    /\ rotation_lock = 0
    /\ rotations = <<>>
    /\ controller = NoController
    /\ identities = <<>>

throttleOthers == <<poolVars, w, threads, rotation_lock, rotations, controller,
                    identities>>

\* Time passes.
Tick ==
    /\ clock < MaxTime
    /\ clock' = clock + 1
    /\ UNCHANGED <<throttleOthers, last_request_time, throttle, starts>>

\* An invocation of circuit c's search begins: `now = time.time()`.
ThrottleEnter(c) ==
    /\ throttle.pc = "idle"
    /\ Len(starts) < MaxStarts
    /\ throttle' = [throttle EXCEPT !.pc = "check", !.c = c, !.now = clock]
    /\ UNCHANGED <<throttleOthers, clock, last_request_time, starts>>

\* The test of the interval: the sleep begins, or there is none.
ThrottleCheck ==
    /\ throttle.pc = "check"
    /\ LET d == SleepFor(throttle.now, last_request_time[throttle.c],
                         throttle.min_interval)
       IN  throttle' = [throttle EXCEPT
                          !.pc = IF d > 0 THEN "sleeping" ELSE "record",
                          !.sleep = d,
                          !.slept_from = clock]
    /\ UNCHANGED <<throttleOthers, clock, last_request_time, starts>>

\* sleep() returns, not before the time asked for has passed.
ThrottleWake ==
    /\ throttle.pc = "sleeping"
    /\ clock >= throttle.slept_from + throttle.sleep
    /\ throttle' = [throttle EXCEPT !.pc = "record"]
    /\ UNCHANGED <<throttleOthers, clock, last_request_time, starts>>

\* `self._last_request_time = time.time()`, and the operation starts.
ThrottleRecord ==
    /\ throttle.pc = "record"
    /\ last_request_time' = [last_request_time EXCEPT ![throttle.c] = clock]
    /\ starts' = Append(starts, [c |-> throttle.c, t |-> clock])
    /\ throttle' = [throttle EXCEPT !.pc = "op"]
    /\ UNCHANGED <<throttleOthers, clock>>

\* The invocation ends, with a result or an error.
ThrottleLeave ==
    /\ throttle.pc = "op"
    /\ throttle' = [throttle EXCEPT !.pc = "idle", !.c = 0, !.now = 0,
                                    !.sleep = 0, !.slept_from = 0]
    /\ UNCHANGED <<throttleOthers, clock, last_request_time, starts>>

NextThrottle ==
    \/ Tick
    \/ \E c \in Circuits : ThrottleEnter(c)
    \/ ThrottleCheck
    \/ ThrottleWake
    \/ ThrottleRecord
    \/ ThrottleLeave

SpecThrottle == InitThrottle /\ [][NextThrottle]_vars

-----------------------------------------------------------------------------
(* Concurrent callers of a constructed pool's search: threads for Shoyu,   *)
(* coroutines of one event loop for AsyncShoyu.  Each caller makes one     *)
(* call; its operation succeeds and the daemon accepts every rotation.  A  *)
(* thread may be preempted between any two steps; a coroutine gives way    *)
(* only where it awaits.  The control session of every circuit is taken   *)
(* to be connected and authenticated; the circuit records keep the counter *)
(* only.                                                                   *)

\* A lock that never makes its caller wait.
CanAcquire_Always(lock) == TRUE

\* Whether `with self._rotation_lock` (`async with`) enters at once.
CanAcquire(lock) == lock = 0

\* The callers.
Threads == DOMAIN threads

NewThread == [pc |-> "start", c |-> 0, tmp |-> 0]

InitThreads ==
    /\ InitPool
    /\ clock = 0
    /\ last_request_time = <<>>
    /\ throttle = NoThrottle
    /\ starts = <<>>
    /\ threads = [t \in 1..MaxThreads |-> NewThread]
    /\ rotation_lock = 0
    /\ rotations = [c \in 1..num_circuits |-> 0]
    /\ controller = NoController
    /\ identities = <<>>

threadOthers == <<facade, num_circuits, max_queries_per_identity, tor_in_path,
                  pc, data_dir, stack, procs, tor_process, cur, w, att, call,
                  hist, launches, td, clock, last_request_time, throttle,
                  starts, controller, identities, ports>>

\* The counter of circuit c of the facade's kind.
QueryCounter(c) ==
    IF facade = "Shoyu" THEN sync_searches[c].query_counter
    ELSE async_searches[c].query_counter

\* The circuits after `self._query_counter = v` on circuit c.
SetCounter(c, v) ==
    /\ IF facade = "Shoyu"
       THEN /\ sync_searches' = [sync_searches EXCEPT ![c].query_counter = v]
            /\ UNCHANGED async_searches
       ELSE /\ async_searches' = [async_searches EXCEPT
                                    ![c].query_counter = v]
            /\ UNCHANGED sync_searches

\* Caller t's `search = next(self._circuit_pool)`.
ThreadSelect(t) ==
    /\ threads[t].pc = "start"
    /\ LET n == CycleNext(cursor, num_circuits)
       IN  /\ cursor' = n.cursor
           /\ picks' = Append(picks, n.circuit)
           /\ threads' = [threads EXCEPT ![t].pc = "op", ![t].c = n.circuit]
    /\ UNCHANGED <<threadOthers, sync_searches, async_searches, rotation_lock,
                   rotations>>

\* Thread t's operation has succeeded: `self._query_counter += 1` reads the
\* counter.
ThreadLoad(t) ==
    /\ facade = "Shoyu"
    /\ threads[t].pc = "op"
    /\ threads' = [threads EXCEPT ![t].pc = "store",
                                  ![t].tmp = QueryCounter(threads[t].c)]
    /\ UNCHANGED <<threadOthers, cursor, picks, sync_searches, async_searches,
                   rotation_lock, rotations>>

\* ... and writes it back, one more.
ThreadStore(t) ==
    /\ facade = "Shoyu"
    /\ threads[t].pc = "store"
    /\ SetCounter(threads[t].c, threads[t].tmp + 1)
    /\ threads' = [threads EXCEPT ![t].pc = "check", ![t].tmp = 0]
    /\ UNCHANGED <<threadOthers, cursor, picks, rotation_lock, rotations>>

\* Thread t's `if self._query_counter >= self._max_queries`.
ThreadCheck(t) ==
    /\ facade = "Shoyu"
    /\ threads[t].pc = "check"
    /\ threads' = [threads EXCEPT
                     ![t].pc = IF QueryCounter(threads[t].c)
                                  >= max_queries_per_identity
                               THEN "acquire" ELSE "done"]
    /\ UNCHANGED <<threadOthers, cursor, picks, sync_searches, async_searches,
                   rotation_lock, rotations>>

\* Coroutine t's operation has succeeded: the increment, the test and, when
\* the lock is free, its acquisition, up to the first await.
CoroutineCount(t) ==
    /\ facade = "AsyncShoyu"
    /\ threads[t].pc = "op"
    /\ LET v == QueryCounter(threads[t].c) + 1
           rotates == v >= max_queries_per_identity
           enters == rotates /\ CanAcquire(rotation_lock)
       IN  /\ SetCounter(threads[t].c, v)
           /\ threads' = [threads EXCEPT
                            ![t].pc = IF enters THEN "send"
                                      ELSE IF rotates THEN "acquire"
                                      ELSE "done"]
           /\ rotation_lock' = IF enters THEN t ELSE rotation_lock
    /\ UNCHANGED <<threadOthers, cursor, picks, rotations>>

\* Caller t enters _rotate_identity's `with self._rotation_lock`.
ThreadAcquire(t) ==
    /\ threads[t].pc = "acquire"
    /\ CanAcquire(rotation_lock)
    /\ rotation_lock' = t
    /\ threads' = [threads EXCEPT ![t].pc = "send"]
    /\ UNCHANGED <<threadOthers, cursor, picks, sync_searches, async_searches,
                   rotations>>

\* Caller t sends SIGNAL NEWNYM and reads the daemon's 250.
ThreadSend(t) ==
    /\ threads[t].pc = "send"
    /\ rotations' = [rotations EXCEPT ![threads[t].c] = @ + 1]
    /\ threads' = [threads EXCEPT ![t].pc = "reset"]
    /\ UNCHANGED <<threadOthers, cursor, picks, sync_searches, async_searches,
                   rotation_lock>>

\* Caller t's `self._query_counter = 0`.
ThreadReset(t) ==
    /\ threads[t].pc = "reset"
    /\ SetCounter(threads[t].c, 0)
    /\ threads' = [threads EXCEPT ![t].pc = "reinit"]
    /\ UNCHANGED <<threadOthers, cursor, picks, rotation_lock, rotations>>

\* Caller t has set up the client (the session) again and leaves the lock.
ThreadRelease(t) ==
    /\ threads[t].pc = "reinit"
    /\ rotation_lock' = IF rotation_lock = t THEN 0 ELSE rotation_lock
    /\ threads' = [threads EXCEPT ![t].pc = "done"]
    /\ UNCHANGED <<threadOthers, cursor, picks, sync_searches, async_searches,
                   rotations>>

NextThreads ==
    \/ \E t \in Threads : ThreadSelect(t)
    \/ \E t \in Threads : ThreadLoad(t)
    \/ \E t \in Threads : ThreadStore(t)
    \/ \E t \in Threads : ThreadCheck(t)
    \/ \E t \in Threads : CoroutineCount(t)
    \/ \E t \in Threads : ThreadAcquire(t)
    \/ \E t \in Threads : ThreadSend(t)
    \/ \E t \in Threads : ThreadReset(t)
    \/ \E t \in Threads : ThreadRelease(t)

SpecThreads == InitThreads /\ [][NextThreads]_vars

-----------------------------------------------------------------------------
(* Concurrent callers whose operations and rotations may fail: each caller *)
(* makes one call of the pool's search, retried by the wrapper.  The       *)
(* operation and the daemon's answer always come.                          *)

\* A lock that stays held when the block it guards raises.
Release_OnSuccessOnly(lock, t, ok) == IF ok /\ lock = t THEN 0 ELSE lock

\* The lock after caller t leaves `with self._rotation_lock`, normally (ok)
\* or by an exception.
Release(lock, t, ok) == IF lock = t THEN 0 ELSE lock

\* A caller before its call.  op: the outcome of the operation of the
\* invocation in progress; w: the frame of the retry wrapper; observed:
\* whether it found the lock held (waited) and got it afterwards (entered),
\* whether a rotation of its own raised (refused).
NewLive ==
    [pc |-> "start", c |-> 0, op |-> "none", waited |-> FALSE,
     entered |-> FALSE, refused |-> FALSE,
     w |-> NewFrame(SearchMaxRetries, SearchSleepTime, TRUE, {}, FALSE)]

InitLive ==
    /\ InitPool
    /\ clock = 0
    /\ last_request_time = <<>>
    /\ throttle = NoThrottle
    /\ starts = <<>>
    /\ threads = [t \in 1..MaxCallers |-> NewLive]
    /\ rotation_lock = 0
    /\ rotations = [c \in 1..num_circuits |-> 0]
    /\ controller = NoController
    /\ identities = <<>>

\* The caller after an invocation of the circuit's search ended with res:
\* the wrapper returns, raises or invokes again.
LiveEnd(th, res) ==
    LET f == IF facade = "Shoyu" THEN wrapper(th.w, res)
             ELSE async_wrapper(th.w, res)
    IN  [th EXCEPT !.w = f, !.op = "none",
                   !.pc = IF f.status = "running" THEN "op" ELSE f.status]

\* One invocation of the circuit's search by caller t, up to its return or
\* to its call of _rotate_identity.
LiveInvoke(t) ==
    /\ threads[t].pc = "op"
    /\ \E op \in {"ok", "fail", "fail403"} :
         LET th == threads[t]
             v == QueryCounter(th.c) + 1
             rotates == op = "fail403"
                        \/ (op = "ok" /\ v >= max_queries_per_identity)
         IN  /\ IF op = "ok" THEN SetCounter(th.c, v)
                ELSE UNCHANGED <<sync_searches, async_searches>>
             /\ threads' =
                  [threads EXCEPT
                     ![t] = IF rotates
                            THEN [th EXCEPT !.pc = "acquire", !.op = op,
                                            !.waited = rotation_lock # 0]
                            ELSE LiveEnd(th, IF op = "ok" THEN Ok("results")
                                             ELSE Err("SearchFailedError"))]
    /\ UNCHANGED <<threadOthers, cursor, picks, rotation_lock, rotations>>

\* Caller t enters `with self._rotation_lock`.
LiveAcquire(t) ==
    /\ threads[t].pc = "acquire"
    /\ CanAcquire(rotation_lock)
    /\ rotation_lock' = t
    /\ threads' = [threads EXCEPT ![t].pc = "rotate", ![t].waited = FALSE,
                                  ![t].entered = @ \/ threads[t].waited]
    /\ UNCHANGED <<threadOthers, cursor, picks, sync_searches, async_searches,
                   rotations>>

\* The body of _rotate_identity for caller t, and the end of the invocation:
\* the daemon accepts the command or not, the session of an AsyncWebSearch
\* is set up again or not.
LiveRotate(t) ==
    /\ threads[t].pc = "rotate"
    /\ \E resp \in {"250", "other", "oserror", "eof"}, reinit \in BOOLEAN :
         LET th == threads[t]
             accepted == resp = "250"
             ok == accepted /\ (facade = "Shoyu" \/ reinit)
             res == IF th.op = "ok" /\ ok THEN Ok("results")
                    ELSE IF th.op = "ok" \/ ok THEN Err("SearchFailedError")
                    ELSE Err("TorError")
         IN  /\ rotation_lock' = Release(rotation_lock, t, ok)
             /\ IF accepted THEN SetCounter(th.c, 0)
                ELSE UNCHANGED <<sync_searches, async_searches>>
             /\ threads' = [threads EXCEPT
                              ![t] = LiveEnd([th EXCEPT
                                                !.refused = @ \/ ~ok], res)]
    /\ UNCHANGED <<threadOthers, cursor, picks, rotations>>

\* The steps of caller t.
LiveStep(t) ==
    \/ ThreadSelect(t)
    \/ LiveInvoke(t)
    \/ LiveAcquire(t)
    \/ LiveRotate(t)

NextLive ==
    \/ \E t \in Threads : ThreadSelect(t)
    \/ \E t \in Threads : LiveInvoke(t)
    \/ \E t \in Threads : LiveAcquire(t)
    \/ \E t \in Threads : LiveRotate(t)

\* Every caller that can take a step eventually takes one: threads are
\* scheduled, an event loop runs its ready tasks, and a lock that is free
\* is given to a caller waiting for it.
SpecLive ==
    /\ InitLive
    /\ [][NextLive]_vars
    /\ \A t \in 1..MaxCallers : WF_vars(LiveStep(t))

-----------------------------------------------------------------------------
(* The throttle of search under concurrent callers: each caller invokes    *)
(* the search of a circuit once, threads for Shoyu (preempted between any  *)
(* two steps), coroutines of one event loop for AsyncShoyu (switching only *)
(* at `await asyncio.sleep`).  The operation starts at the instant         *)
(* recorded in _last_request_time.                                         *)

\* A caller before its invocation.  now is the local of search, wake the
\* time at which the sleep it asked for is over.
NewCaller == [pc |-> "start", c |-> 0, now |-> 0, wake |-> 0]

InitRate ==
    /\ InitPool
    /\ clock \in {0, MaxInterval}
    /\ last_request_time = [c \in 1..num_circuits |-> 0]
    /\ \E m \in 1..MaxInterval :
         throttle = [NoThrottle EXCEPT !.min_interval = m]
    /\ starts = <<>>
    /\ threads = [t \in 1..MaxCallers |-> NewCaller]
    /\ rotation_lock = 0
    /\ rotations = <<>>
    /\ controller = NoController
    /\ identities = <<>>

rateOthers == <<poolVars, w, throttle, rotation_lock, rotations, controller,
                identities>>

\* Whether caller t may take a step: a thread always, a coroutine when no
\* other coroutine is between two awaits.
Runs(t) ==
    \/ facade = "Shoyu"
    \/ \A u \in Threads \ {t} : threads[u].pc \notin {"check", "record"}

\* Time passes while the callers run.
RateTick ==
    /\ clock < MaxTime
    /\ clock' = clock + 1
    /\ UNCHANGED <<rateOthers, last_request_time, starts, threads>>

\* Caller t's invocation of circuit c's search begins: `now = time.time()`
\* (`now = asyncio.get_event_loop().time()`).
RateEnter(t, c) ==
    /\ threads[t].pc = "start"
    /\ Runs(t)
    /\ threads' = [threads EXCEPT ![t].pc = "check", ![t].c = c,
                                  ![t].now = clock]
    /\ UNCHANGED <<rateOthers, clock, last_request_time, starts>>

\* Caller t's test of the interval: the sleep begins, or there is none.
RateCheck(t) ==
    /\ threads[t].pc = "check"
    /\ Runs(t)
    /\ LET d == SleepFor(threads[t].now, last_request_time[threads[t].c],
                         throttle.min_interval)
       IN  threads' = [threads EXCEPT
                         ![t].pc = IF d > 0 THEN "sleeping" ELSE "record",
                         ![t].now = 0,
                         ![t].wake = clock + d]
    /\ UNCHANGED <<rateOthers, clock, last_request_time, starts>>

\* Caller t's sleep returns, not before the time asked for has passed.
RateWake(t) ==
    /\ threads[t].pc = "sleeping"
    /\ Runs(t)
    /\ clock >= threads[t].wake
    /\ threads' = [threads EXCEPT ![t].pc = "record"]
    /\ UNCHANGED <<rateOthers, clock, last_request_time, starts>>

\* Caller t's `self._last_request_time = time.time()`, and its operation
\* starts.
RateRecord(t) ==
    /\ threads[t].pc = "record"
    /\ last_request_time' = [last_request_time EXCEPT ![threads[t].c] = clock]
    /\ starts' = Append(starts, [c |-> threads[t].c, t |-> clock])
    /\ threads' = [threads EXCEPT ![t].pc = "done", ![t].wake = 0]
    /\ UNCHANGED <<rateOthers, clock>>

NextRate ==
    \/ RateTick
    \/ \E t \in Threads, c \in Circuits : RateEnter(t, c)
    \/ \E t \in Threads : RateCheck(t)
    \/ \E t \in Threads : RateWake(t)
    \/ \E t \in Threads : RateRecord(t)

SpecRate == InitRate /\ [][NextRate]_vars

-----------------------------------------------------------------------------
(* tor/controller.py: a TorController on its own, its methods called in    *)
(* any order.                                                              *)

\* TorController.connect: a new socket replaces self._socket, then connects.
TorController_connect(c, conn) ==
    IF conn = "ok"
    THEN [c |-> [c EXCEPT !.socket = "open"], sent |-> 0, res |-> Ok("None")]
    ELSE [c |-> [c EXCEPT !.socket = "unconnected"], sent |-> 0,
          res |-> Err("TorConnectionError")]

\* TorController.authenticate.  cookie: whether the cookie file can be read
\* ("readable"), exists but cannot ("unreadable"), or is not there or not
\* configured ("absent", null authentication).
TorController_authenticate(c, cookie, resp) ==
    IF c.socket = "none"
    THEN [c |-> c, sent |-> 0, res |-> Err("TorConnectionError")]
    ELSE IF cookie = "unreadable"
    THEN [c |-> c, sent |-> 0, res |-> Err("TorAuthenticationError")]
    ELSE LET r == send_command(c, resp)
         IN  IF ~r.res.ok THEN [c |-> c, sent |-> r.sent, res |-> r.res]
             ELSE IF r.res.val # "250"
             THEN [c |-> c, sent |-> r.sent,
                   res |-> Err("TorAuthenticationError")]
             ELSE [c |-> [c EXCEPT !.authenticated = TRUE], sent |-> r.sent,
                   res |-> Ok("None")]

\* What the daemon may do with a command on the controller's connection.
ControllerResponses(c) ==
    IF c.socket = "open" THEN {"250", "other", "oserror", "eof"}
    ELSE {"oserror"}

InitController ==
    /\ InitPool
    /\ clock = 0
    /\ last_request_time = <<>>
    /\ throttle = NoThrottle
    /\ starts = <<>>
    /\ threads = <<>>
    /\ rotation_lock = 0
    /\ rotations = <<>>
    /\ controller = NoController
    /\ identities = <<>>

controllerOthers == <<poolVars, w, clock, last_request_time, throttle, starts,
                      threads, rotation_lock, rotations, identities>>

\* The controller after a call named name with outcome r.
AfterCall(name, r) ==
    [c |-> r.c, n |-> controller.n + 1, last |-> name, ok |-> r.res.ok,
     wrote |-> r.sent > 0, from |-> SessionState(controller.c),
     failed_before |-> controller.failed,
     failed |-> controller.failed
                \/ (name \in {"connect", "authenticate"} /\ ~r.res.ok),
     socket_authenticated |->
         IF name \in {"connect", "close"} THEN FALSE
         ELSE IF name = "authenticate" /\ r.res.ok THEN TRUE
         ELSE controller.socket_authenticated,
     error |-> IF r.res.ok THEN "None" ELSE r.res.val,
     heard |-> "none"]

ControllerConnect ==
    /\ controller.n < MaxControllerCalls
    /\ \E conn \in {"ok", "refused"} :
         controller' = AfterCall("connect",
                                 TorController_connect(controller.c, conn))
    /\ UNCHANGED controllerOthers

ControllerAuthenticate ==
    /\ controller.n < MaxControllerCalls
    /\ \E resp \in ControllerResponses(controller.c),
          cookie \in {"readable", "unreadable", "absent"} :
         LET r == TorController_authenticate(controller.c, cookie, resp)
         IN  controller' = [AfterCall("authenticate", r) EXCEPT
                              !.heard = IF r.sent > 0 THEN resp ELSE "none"]
    /\ UNCHANGED controllerOthers

ControllerCommand ==
    /\ controller.n < MaxControllerCalls
    /\ \E resp \in ControllerResponses(controller.c) :
         controller' = AfterCall("command",
                                 [c |-> controller.c]
                                 @@ send_command(controller.c, resp))
    /\ UNCHANGED controllerOthers

ControllerNewIdentity ==
    /\ controller.n < MaxControllerCalls
    /\ \E resp \in ControllerResponses(controller.c) :
         controller' = AfterCall("new_identity",
                                 [c |-> controller.c]
                                 @@ new_identity(controller.c, resp))
    /\ UNCHANGED controllerOthers

ControllerClose ==
    /\ controller.n < MaxControllerCalls
    /\ controller' = AfterCall("close",
                               [c |-> TorController_close(controller.c),
                                sent |-> 0, res |-> Ok("None")])
    /\ UNCHANGED controllerOthers

NextController ==
    \/ ControllerConnect
    \/ ControllerAuthenticate
    \/ ControllerCommand
    \/ ControllerNewIdentity
    \/ ControllerClose

SpecController == InitController /\ [][NextController]_vars

-----------------------------------------------------------------------------
(* search/pool.py: the identities given to the circuits by the loop of     *)
(* create_tor_pool, `circuit_id = f"circuit_{i:03d}"`.                     *)

RECURSIVE Digits(_)
\* The decimal digits of i >= 0, most significant first.
Digits(i) == IF i < 10 THEN <<i>> ELSE Append(Digits(i \div 10), i % 10)

\* A format that keeps the last three digits only.
Format03d_Truncated(i) ==
    LET d == Digits(i % 1000)
    IN  [k \in 1..(3 - Len(d)) |-> 0] \o d

\* `{i:03d}`: the digits of i, padded with zeros on the left to three.
Format03d(i) ==
    LET d == Digits(i)
    IN  IF Len(d) >= 3 THEN d ELSE [k \in 1..(3 - Len(d)) |-> 0] \o d

\* The identity string: its fixed prefix and the digits that follow.
circuit_id(i) == [prefix |-> "circuit_", digits |-> Format03d(i)]

\* create_tor_pool at the head of its loop, for pools of several sizes.
InitIdentity ==
    /\ NoSide
    /\ ports = PoolPorts(1, MaxPorts, 0)
    /\ facade \in {"Shoyu", "AsyncShoyu"}
    /\ num_circuits \in {1, 2, 11, 101, MaxPoolSize}
    /\ max_queries_per_identity = 1
    /\ tor_in_path = TRUE
    /\ pc = "circuits"
    /\ data_dir = "exists"
    /\ stack = <<Callback("rmtree", 0), Callback("terminate_process", 1)>>
    /\ procs = <<NewProcess("alive")>>
    /\ tor_process = 1
    /\ sync_searches = <<>>
    /\ async_searches = <<>>
    /\ cursor = 0
    /\ cur = 0
    /\ w = NoFrame
    /\ picks = <<>>
    /\ att = NoAttempt
    /\ call = NewCall("create")
    /\ hist = <<>>
    /\ launches = <<[error |-> "None", timed_out |-> FALSE, proc |-> 1]>>
    /\ td = NoTeardown

\* One turn of the loop: the identity of circuit i, given to its WebSearch
\* and to its AsyncWebSearch.
NameCircuit ==
    /\ pc = "circuits"
    /\ Len(identities) < num_circuits
    /\ LET id == circuit_id(Len(identities))
       IN  identities' = Append(identities, [sync |-> id, async |-> id])
    /\ UNCHANGED <<poolVars, w, clock, last_request_time, throttle, starts,
                   threads, rotation_lock, rotations, controller>>

NextIdentity == NameCircuit

SpecIdentity == InitIdentity /\ [][NextIdentity]_vars

-----------------------------------------------------------------------------
(* Properties of the pool, its circuits, the launch and the retry wrappers. *)

\* C1: 2N consecutive search calls on a pool of N circuits are dispatched to
\* the circuits in creation order, cyclically, each circuit exactly twice,
\* whether the searches succeed or fail.
C1_RoundRobin ==
    /\ \A j \in 1..Len(picks) : picks[j] = ((j - 1) % num_circuits) + 1
    /\ Len(picks) >= 2 * num_circuits =>
         \A c \in Circuits :
           Cardinality({j \in 1..(2 * num_circuits) : picks[j] = c}) = 2

\* Two circuits have served four calls, the last of which raised.
C1_Witness ==
    /\ num_circuits = 2
    /\ Len(picks) = 4
    /\ pc = "idle"
    /\ call.status = "raised"

\* The counter of the circuit that SpecCircuit calls.
CircuitCounter ==
    IF facade = "Shoyu" THEN sync_searches[1].query_counter
    ELSE async_searches[1].query_counter

\* C2 as stated, for every m > 0: while the daemon answers 250 to every
\* rotation attempt, the m-th successful operation since creation or since
\* the last rotation sends one rotation command and leaves queryCounter at
\* 0, and the successful operation after it does not rotate.
C2_Original ==
    ~hist[1].refused =>
        /\ CircuitCounter = hist[1].ok_since
        /\ hist[1].ok_since < max_queries_per_identity
        /\ (att.op = "ok"
            /\ att.counter_before + 1 = max_queries_per_identity) =>
               (att.rot_cmds = 1 /\ att.rot_ok /\ CircuitCounter = 0)
        /\ (att.op = "ok" /\ att.after_rot) => att.rot_cmds = 0

\* C2, amended: the same, the last part for m >= 2 only (with m = 1 every
\* successful operation rotates).
C2_RotationAtThreshold ==
    ~hist[1].refused =>
        /\ CircuitCounter = hist[1].ok_since
        /\ hist[1].ok_since < max_queries_per_identity
        /\ (att.op = "ok"
            /\ att.counter_before + 1 = max_queries_per_identity) =>
               (att.rot_cmds = 1 /\ att.rot_ok /\ CircuitCounter = 0)
        /\ (max_queries_per_identity >= 2 /\ att.op = "ok" /\ att.after_rot)
               => att.rot_cmds = 0
        /\ (max_queries_per_identity = 1 /\ att.op = "ok")
               => att.rot_cmds = 1

\* With m = 2, the successful operation that follows a rotation at the
\* threshold has been invoked, and did not rotate.
C2_Witness ==
    /\ max_queries_per_identity = 2
    /\ ~hist[1].refused
    /\ att.op = "ok"
    /\ att.after_rot
    /\ att.rot_cmds = 0
    /\ CircuitCounter = 1

\* C3 as stated: a search call in which the operation failed with the block
\* marker has sent exactly one rotation command, leaves queryCounter at 0
\* and raises the operation's error to the caller.
C3_Original ==
    (pc = "idle" /\ call.kind = "search" /\ att.call_blocked >= 1) =>
        /\ att.call_rot_cmds = 1
        /\ CircuitCounter = 0
        /\ call.status = "raised"
        /\ att.cause = "OpError"

\* C3, amended: every invocation of the operation that fails with the block
\* marker makes exactly one rotation attempt, which sends at most one
\* rotation command; when the daemon accepts it queryCounter is 0
\* afterwards; the invocation raises SearchFailedError from the operation's
\* error when the rotation succeeded and TorError when it did not.  The call
\* retries, so it sends up to one rotation command per invocation, and it
\* raises when its last invocation was such a failure.
C3_BlockRotation ==
    /\ att.op = "fail403" =>
         /\ att.rot_tries = 1
         /\ att.rot_cmds <= 1
         /\ att.rot_ok => (att.rot_cmds = 1 /\ CircuitCounter = 0)
         /\ ~att.res.ok
         /\ att.res.val \in {"SearchFailedError", "TorError"}
         /\ att.res.val = "SearchFailedError" =>
                (att.rot_ok /\ att.cause = "OpError")
         /\ ~att.rot_ok => att.res.val = "TorError"
         /\ (pc = "idle" /\ call.kind = "search") => call.status = "raised"
    /\ att.call_rot_cmds <= att.call_ops
    /\ att.call_ops <= SearchMaxRetries

\* A call whose operation failed twice with the block marker, and that sent
\* two rotation commands the daemon accepted, on a counter that was not 0.
C3_Witness ==
    /\ att.op = "fail403"
    /\ att.rot_ok
    /\ att.counter_before > 0
    /\ att.call_blocked = 2
    /\ att.call_rot_cmds = 2

\* C4 as stated, for every k >= 1: at most k invocations, the first success
\* ends the call with its result, and k failures end it with an error
\* raised.
C4_Original ==
    w.max_retries >= 1 =>
        /\ w.calls <= w.max_retries
        /\ w.failed < w.calls =>
             (w.status = "returned" /\ w.value = "result"
              /\ w.failed = w.calls - 1)
        /\ (w.status # "running" /\ w.failed = w.max_retries) =>
             w.status = "raised"

\* C4, amended: k failures end the call with an error raised when
\* raises_on_exception is true (the default), and with None returned when it
\* is false.
C4_BoundedRetry ==
    w.max_retries >= 1 =>
        /\ w.calls <= w.max_retries
        /\ w.failed < w.calls =>
             (w.status = "returned" /\ w.value = "result"
              /\ w.failed = w.calls - 1)
        /\ (w.status # "running" /\ w.failed = w.max_retries) =>
             IF w.raises_on_exception
             THEN w.status = "raised" /\ w.value \in CoreErrors
             ELSE w.status = "returned" /\ w.value = "None"

\* Three invocations of three allowed have failed and the call has raised.
C4_Witness ==
    /\ w.max_retries = 3
    /\ w.calls = 3
    /\ w.failed = 3
    /\ w.status = "raised"

\* C5: after an invocation raised an exception listed in
\* non_retry_exceptions the operation is not invoked again, whatever the
\* other parameters.
C5_NonRetryable ==
    w.after_listed = 0

\* C6: with the executable absent from the search path there is one launch
\* attempt, no sleep and no process, and the creation fails.
C6_FailFast ==
    (~tor_in_path /\ pc # "new") =>
        /\ Len(launches) <= 1
        /\ w.slept = <<>>
        /\ procs = <<>>
        /\ Len(launches) = 1 => pc = "failed"

\* C7: a launch attempt whose control port did not open in time raises the
\* startup-timeout error with its process no longer alive, and at most one
\* daemon process is alive at any time.
C7_TimeoutKills ==
    /\ \A j \in 1..Len(launches) :
         launches[j].timed_out =>
           /\ launches[j].error = "TorConnectionError"
           /\ launches[j].proc # 0
           /\ procs[launches[j].proc].state # "alive"
    /\ Cardinality({p \in 1..Len(procs) : procs[p].state = "alive"}) <= 1

\* The first attempt timed out and its process had to be killed; the second
\* attempt's daemon is alive.
C7_Witness ==
    /\ Len(launches) >= 2
    /\ launches[1].timed_out
    /\ procs[launches[1].proc].kill = 1
    /\ launches[2].proc # 0
    /\ procs[launches[2].proc].state = "alive"

\* C8: a second teardown raises no error and repeats no release action.
C8_Idempotent ==
    td.count >= 1 =>
        /\ (td.count >= 2 /\ pc = "idle") => call.status = "returned"
        /\ procs[tor_process].term <= 1
        /\ td.rmtrees <= 1
        /\ \A c \in Circuits :
             /\ sync_searches[c].closes <= 1
             /\ ~async_searches[c].reclosed

\* C9: when a step of a teardown has failed, the teardown has still closed
\* the other circuits, terminated the daemon and removed the directory.
C9_BestEffort ==
    (pc = "idle" /\ td.failed) =>
        /\ stack = <<>>
        /\ data_dir = "removed"
        /\ procs[tor_process].state = "exited"
        /\ \A c \in Circuits :
             /\ sync_searches[c].socket = "none"
             /\ async_searches[c].writer # "open"

\* C10: the daemon receives its termination signal only when every
\* circuit's control session is closed, and the data directory is removed
\* only after the daemon has been terminated.
C10_ReverseOrder ==
    /\ procs[tor_process].term >= 1 =>
         \A c \in Circuits :
           /\ sync_searches[c].socket = "none"
           /\ async_searches[c].writer # "open"
           /\ ~async_searches[c].orphaned
    /\ data_dir = "removed" => procs[tor_process].state = "exited"

\* C11: once teardown has run the daemon's termination, no circuit of the
\* pool, synchronous or asynchronous, holds an open control connection.
C11_NoCircuitOutlivesDaemon ==
    (\A k \in 1..Len(stack) : stack[k].f # "terminate_process") =>
        \A c \in Circuits :
          /\ sync_searches[c].socket = "none"
          /\ async_searches[c].writer # "open"
          /\ ~async_searches[c].orphaned

\* C12: every invocation of the operation starts with queryCounter below
\* the threshold, and the counter never grows beyond the threshold.
C12_CounterBelowThreshold ==
    /\ att.op # "none" => att.counter_before < max_queries_per_identity
    /\ CircuitCounter <= max_queries_per_identity

\* Whether the rotation attempted by invocation a failed.
RotationFailed(a) ==
    /\ a.rot_tries >= 1
    /\ \/ a.op = "ok" /\ ~a.res.ok
       \/ a.op = "fail403" /\ a.res.val = "TorError"

\* C13: an invocation whose rotation attempt failed is the last of its
\* search call: the call has raised and nothing is invoked again.
C13_RotationFailurePropagates ==
    RotationFailed(att) => (pc = "idle" /\ call.status = "raised")

\* C14 as stated: an invocation whose operation failed without the block
\* marker rotates nothing and raises the operation's own error.
C14_Original ==
    att.op = "fail" =>
        /\ att.rot_tries = 0
        /\ ~att.res.ok
        /\ att.res.val = "OpError"

\* C14, amended: an invocation whose operation failed without the block
\* marker rotates nothing, leaves the counter alone and raises
\* SearchFailedError from the operation's error; the call raises when this
\* was its last invocation.
C14_PlainFailure ==
    att.op = "fail" =>
        /\ att.rot_tries = 0
        /\ att.rot_cmds = 0
        /\ CircuitCounter = att.counter_before
        /\ ~att.res.ok
        /\ att.res.val = "SearchFailedError"
        /\ att.cause = "OpError"
        /\ (pc = "idle" /\ call.kind = "search") => call.status = "raised"

\* The third invocation of a call failed without the block marker, on a
\* counter that was not 0, and the call raised.
C14_Witness ==
    /\ att.op = "fail"
    /\ att.counter_before > 0
    /\ att.call_ops = 3
    /\ pc = "idle"
    /\ call.status = "raised"

\* C15: two operation starts on the same circuit are at least the minimum
\* interval apart.
C15_Throttle ==
    \A i \in 1..Len(starts) : \A j \in (i + 1)..Len(starts) :
        starts[i].c = starts[j].c =>
            starts[j].t - starts[i].t >= throttle.min_interval

\* The same circuit started two operations exactly one interval of two ticks
\* apart, the second after a sleep.
C15_Witness ==
    /\ throttle.min_interval = 2
    /\ throttle.sleep > 0
    /\ Len(starts) >= 2
    /\ starts[Len(starts)].c = starts[Len(starts) - 1].c
    /\ starts[Len(starts)].t - starts[Len(starts) - 1].t = 2

\* The callers that have incremented circuit c's counter.
Counted(c) ==
    {t \in Threads : threads[t].c = c
                     /\ threads[t].pc \notin {"start", "op", "store"}}

\* The callers inside the rotation of circuit c.
Rotating(c) ==
    {t \in Threads : threads[t].c = c
                     /\ threads[t].pc \in {"send", "reset", "reinit"}}

\* C16: concurrent callers send one rotation command per crossing of the
\* threshold: with m queries per identity, never more than one command for
\* every m operations counted on the circuit.
C16_OneRotationPerCrossing ==
    \A c \in Circuits :
        rotations[c] * max_queries_per_identity <= Cardinality(Counted(c))

\* C17: at most one caller at a time is between sending the rotation command
\* and the end of the reset and re-establishment, on any circuit, and it is
\* the holder of the lock.
C17_OneRotationAtATime ==
    /\ \A c \in Circuits : Cardinality(Rotating(c)) <= 1
    /\ \A t \in Threads :
         threads[t].pc \in {"send", "reset", "reinit"} => rotation_lock = t

\* One caller has reset the counter of a circuit and still holds the lock
\* while another caller of the same circuit waits for it.
C17_Witness ==
    \E t, u \in Threads :
        /\ t # u
        /\ threads[t].c = threads[u].c
        /\ threads[t].pc = "reinit"
        /\ threads[u].pc = "acquire"
        /\ rotation_lock = t

\* C18: every caller that has selected holds exactly one circuit of the
\* pool, there are as many selections as such callers, and among the first
\* k*N selections every circuit is chosen exactly k times.
C18_ConcurrentRoundRobin ==
    /\ \A t \in Threads :
         threads[t].pc # "start" => threads[t].c \in Circuits
    /\ Len(picks) = Cardinality({t \in Threads : threads[t].pc # "start"})
    /\ \A k \in 1..Len(picks) :
         k * num_circuits <= Len(picks) =>
           \A c \in Circuits :
             Cardinality({j \in 1..(k * num_circuits) : picks[j] = c}) = k

\* Every caller has selected while another caller was still in its call, and
\* the selections cover the pool's two circuits.
C18_Witness ==
    /\ num_circuits = 2
    /\ Len(picks) = Cardinality(Threads)
    /\ \A t \in Threads : threads[t].pc \in {"op", "store", "acquire", "send"}
    /\ \A c \in Circuits : \E t \in Threads : threads[t].c = c

\* The order of the session states.
Rank(state) ==
    CASE state = "Disconnected" -> 0
      [] state = "Connected" -> 1
      [] state = "Authenticated" -> 2

\* C19: no call but close moves the session backwards; once a connect or an
\* authenticate has failed, every later call but close fails and writes
\* nothing to the network; close succeeds.
C19_OneWaySession ==
    /\ controller.last \notin {"none", "close"} =>
         Rank(SessionState(controller.c)) >= Rank(controller.from)
    /\ (controller.failed_before /\ controller.last \notin {"none", "close"})
         => (~controller.ok /\ ~controller.wrote)
    /\ controller.last = "close" => controller.ok

\* C20 as stated: the identities of all the circuit objects created so
\* far, synchronous and asynchronous, are pairwise distinct.
C20_Original ==
    Cardinality({identities[k].sync : k \in 1..Len(identities)}
                \cup {identities[k].async : k \in 1..Len(identities)})
        = 2 * Len(identities)

\* C20, amended: the identities of the WebSearch objects are pairwise
\* distinct, so are those of the AsyncWebSearch objects, and the two objects
\* of one turn of the loop have the same identity.
C20_DistinctIdentities ==
    /\ Cardinality({identities[k].sync : k \in 1..Len(identities)})
           = Len(identities)
    /\ Cardinality({identities[k].async : k \in 1..Len(identities)})
           = Len(identities)
    /\ \A k \in 1..Len(identities) : identities[k].sync = identities[k].async

\* A pool of more than a thousand circuits is complete: the first identity
\* has the digits 000, the thousand-and-first 1000.
C20_Witness ==
    /\ num_circuits > 1000
    /\ Len(identities) = num_circuits
    /\ identities[1].sync.digits = <<0, 0, 0>>
    /\ identities[1001].sync.digits = <<1, 0, 0, 0>>
    /\ identities[1001].async.digits = <<1, 0, 0, 0>>

\* C21: every circuit constructed holds the proxy port and the control port
\* that were allocated once and passed to every invocation of the launch, the
\* one that started the pool's daemon included; this stays so through the
\* searches, the rotations and the teardown.
C21_SharedPorts ==
    /\ \A k \in 1..Len(ports.launched) :
         /\ ports.launched[k].socks_port = ports.socks
         /\ ports.launched[k].control_port = ports.control
    /\ Len(ports.sync) = Len(sync_searches)
    /\ Len(ports.async) = Len(async_searches)
    /\ \A k \in 1..Len(ports.sync) :
         /\ ports.sync[k].socks_port = ports.launched[1].socks_port
         /\ ports.sync[k].control_port = ports.launched[1].control_port
    /\ \A k \in 1..Len(ports.async) :
         /\ ports.async[k].socks_port = ports.launched[1].socks_port
         /\ ports.async[k].control_port = ports.launched[1].control_port
    /\ tor_process # 0 =>
         /\ launches[Len(launches)].proc = tor_process
         /\ Len(ports.launched) = Len(launches)

\* A pool of two circuits whose daemon started at the third launch attempt,
\* on two different ports, has served a search call and is torn down.
C21_Witness ==
    /\ Len(launches) = LaunchMaxRetries
    /\ ports.socks # ports.control
    /\ Len(ports.sync) = MaxCircuits
    /\ picks # <<>>
    /\ \E k \in 1..Len(sync_searches) : sync_searches[k].closes > 0
    /\ td.count > 0

\* C22: with concurrent callers, two operations on one circuit never start
\* less than the minimum interval apart.
C22_ConcurrentThrottle ==
    \A i \in 1..Len(starts), j \in 1..Len(starts) :
        (i < j /\ starts[i].c = starts[j].c)
            => starts[j].t - starts[i].t >= throttle.min_interval

\* C23: with concurrent callers whose rotations the daemon accepts, the
\* counter of a circuit never exceeds max_queries_per_identity.
C23_CounterWithinLimit ==
    \A c \in Circuits : QueryCounter(c) <= max_queries_per_identity

\* C24: a caller that waits for the rotation lock waits for a rotation of
\* its own circuit, never for one of another circuit.
C24_NoCrossCircuitBlocking ==
    \A t \in Threads :
        (threads[t].pc = "acquire" /\ rotation_lock # 0)
            => threads[rotation_lock].c = threads[t].c

\* C25: a caller that waits for the rotation lock eventually holds it, and
\* every call of search eventually returns or raises, whether the rotations
\* succeed or fail.
C25_LockReleased ==
    /\ \A t \in 1..MaxCallers :
         (threads[t].pc = "acquire") ~> (rotation_lock = t)
    /\ \A t \in 1..MaxCallers :
         <>(threads[t].pc \in {"returned", "raised"})

\* Two calls have ended and the lock is free: one had found the lock held
\* and got it afterwards, a rotation of the other had raised.
C25_Witness ==
    \E t \in Threads, u \in Threads :
        /\ t # u
        /\ threads[t].entered
        /\ threads[t].pc \in {"returned", "raised"}
        /\ threads[u].refused
        /\ threads[u].pc \in {"returned", "raised"}
        /\ rotation_lock = 0

\* C26: over any sequence of connect, authenticate, new_identity and close,
\* the controller is marked authenticated only while AUTHENTICATE has been
\* answered 250 on the socket it holds, and new_identity writes its command
\* only then.
C26_AuthenticatedSocket ==
    /\ controller.c.authenticated => controller.socket_authenticated
    /\ (controller.last = "new_identity" /\ controller.wrote)
           => controller.socket_authenticated

\* C27: authenticate() on a connected session returns and marks the session
\* authenticated when the daemon answers 250, and only then; otherwise it
\* raises TorAuthenticationError and the session is not authenticated.
C27_AuthenticateOutcome ==
    (controller.last = "authenticate" /\ controller.from = "Connected")
        => /\ controller.ok <=> controller.heard = "250"
           /\ controller.ok => controller.c.authenticated
           /\ ~controller.ok =>
                  /\ controller.error = "TorAuthenticationError"
                  /\ ~controller.c.authenticated

\* C28: a call during which the setup of the circuit's control session has
\* failed invokes no operation and does not return.
C28_SetupFailureSurfaced ==
    att.call_setup_failed > 0
        => /\ att.call_ops = 0
           /\ call.status # "returned"

\* C29: whenever a circuit invokes the caller's operation, it holds a control
\* session in the Authenticated state.
C29_AuthenticatedWhenOperating ==
    att.op # "none" => att.op_authenticated

\* C30: no circuit ever replaces an open control connection by a new one
\* without closing it, so that it never has two of them open.
C30_OneControlSocket ==
    \A k \in 1..Len(async_searches) : ~async_searches[k].orphaned

\* C31 as stated: after an invocation that attempted a rotation, the counter
\* is 0 when the rotation returned, and when the rotation raised it is what
\* it was before the attempt.
C31_Original ==
    LET before == IF att.op = "ok" THEN att.counter_before + 1
                  ELSE att.counter_before
    IN  att.rot_tries > 0 =>
            CircuitCounter = IF RotationFailed(att) THEN before ELSE 0

\* C31, amended: after an invocation that attempted a rotation, the counter
\* is 0 when the daemon accepted the rotation command, whether or not the
\* rotation raised afterwards, and otherwise what it was before the attempt.
C31_ResetOnAccept ==
    LET before == IF att.op = "ok" THEN att.counter_before + 1
                  ELSE att.counter_before
    IN  att.rot_tries > 0 =>
            CircuitCounter = IF att.rot_ok THEN 0 ELSE before

\* The daemon accepted the rotation command of an AsyncWebSearch that had
\* counted an operation, the session could not be set up again, the rotation
\* raised, and the counter is 0.
C31_Witness ==
    /\ facade = "AsyncShoyu"
    /\ att.op = "ok"
    /\ att.rot_ok
    /\ RotationFailed(att)
    /\ CircuitCounter = 0

\* C32: an invocation of search on a circuit that has been closed raises
\* SearchClientNotInitializedError without invoking the operation, and the
\* circuit has no session and no control connection afterwards.
C32_ClosedStaysClosed ==
    (td.count > 0 /\ ~td.failed /\ att.c # 0)
        => /\ att.op = "none"
           /\ att.res = Err("SearchClientNotInitializedError")
           /\ ~async_searches[1].session
           /\ async_searches[1].writer = "none"
           /\ sync_searches[1].socket = "none"

\* C33: when create_tor_pool has raised, the data directory is removed, the
\* daemon it launched is not alive and the control sockets of the circuits
\* it constructed are closed.
C33_FailedCreationReleases ==
    pc = "failed"
        => /\ data_dir = "removed"
           /\ tor_process # 0 => procs[tor_process].state # "alive"
           /\ \A k \in 1..Len(sync_searches) :
                  sync_searches[k].socket = "none"

\* C34: a process is killed only after it was sent the termination signal
\* and did not exit within the grace period, and a process that was sent the
\* termination signal has exited when the teardown goes on.
C34_GracefulThenKill ==
    \A p \in 1..Len(procs) :
        /\ procs[p].kill > 0 => (procs[p].term > 0 /\ ~procs[p].in_grace)
        /\ procs[p].in_grace => procs[p].kill = 0
        /\ procs[p].term > 0 => procs[p].state = "exited"
        /\ procs[p].term <= 1 /\ procs[p].kill <= 1

\* Two teardowns have run on a daemon that was alive and exited within the
\* grace period: it was sent one termination signal and no kill.
C34_Witness ==
    /\ td.count = MaxTeardowns
    /\ procs[tor_process].term = 1
    /\ procs[tor_process].in_grace
    /\ procs[tor_process].kill = 0

\* C35: once a teardown of the pool has returned, no descendant of the
\* daemon is running.
C35_NoDescendantAlive ==
    (pc = "idle" /\ td.count > 0) => procs[tor_process].children = 0

\* C36: an exception raised by a search on the pool or by a teardown of the
\* pool is a CoreError.
C36_OnlyCoreErrors ==
    call.status = "raised" => call.error \in CoreErrors

C38_SameDecisions ==
    w.status = "running" =>
        \A res \in {Ok("result")} \cup {Err(e) : e \in OpErrors} :
            wrapper(w, res) = async_wrapper(w, res)

\* async_retry's wrapper is in its third iteration and has slept twice,
\* with exponential backoff.
C38_Witness ==
    /\ facade = "AsyncShoyu"
    /\ w.status = "running"
    /\ w.exponential_backoff
    /\ w.calls = 2
    /\ Len(w.slept) = 2
    /\ w.slept[2] = 2 * w.sleep_time

\* C39: after each call made to both circuits, the WebSearch and the
\* AsyncWebSearch have invoked the operation and written rotation commands
\* the same number of times, hold the same query counter, and both returned
\* the same result or raised the same kind of exception.
C39_CircuitsEquivalent ==
    /\ (pc = "idle" /\ call.kind = "search") =>
           /\ w.status = att.wa.status
           /\ w.value = att.wa.value
           /\ att.ops[1] = att.ops[2]
           /\ att.rot_cmds[1] = att.rot_cmds[2]
           /\ sync_searches[1].query_counter
                  = async_searches[1].query_counter
    /\ (pc = "idle" /\ call.kind = "close") => call.error = "None"

\* C40: once create_tor_pool has called find_free_port twice, the SOCKS port
\* and the control port it holds are two different numbers.
C40_DistinctPorts ==
    pc # "new" => ports.socks # ports.control

====
